---- MODULE Spec2Model ----
(***************************************************************************)
(* A model of little-language-lab's parser generator                       *)
(* (src/src/visibly-pushdown.mjs): the AST simplifier, the first-set       *)
(* analysis, the parser compiler and the stack-machine runtime of the      *)
(* TypeScript half, and the grammar compiler of the JavaScript half.       *)
(***************************************************************************)
EXTENDS Integers, Sequences, FiniteSets, TLC

VARIABLES
    ast,        \* createParser's argument: the surface grammar AST
    phase,      \* which step of the pipeline has run
    simplified, \* what ASTSimplifier.simplifyAll returned (or threw)
    compiled,   \* what ParserCompiler.compileRuleset returned (or threw)
    calls,      \* per caller, its invocation of the parser createParser returned
    infix,      \* the lang compiler: an infix rule, its parser and one parse
    wrap,       \* the lang compiler: a grammar, its context and its parser
    lexer       \* one call of tokenize

vars == <<ast, phase, simplified, compiled, calls, infix, wrap, lexer>>

(***************************************************************************)
(* Bounds of the model.                                                    *)
(***************************************************************************)
MaxSeqLen == 3
MaxBranchLen == 1
MaxDepth == 3
MaxItems == 3
MaxTokens == 3
SharedDepth == 1
MaxAlternatives == 2
MaxChain == 3
MaxWrapDepth == 1
MaxTreeTokens == 2
MaxChars == 3
MaxSlots == 1
MaxStack == 64

(***************************************************************************)
(* Ordered sets and maps.  A JavaScript Set or Map iterates in insertion   *)
(* order, and the order decides which terminal an error names and the      *)
(* order of an Alt's expected terminals: a Set is modelled as a sequence   *)
(* without duplicates, a Map as a sequence of [key, val] records.          *)
(***************************************************************************)
Range(s) == {s[i] : i \in DOMAIN s}

SetHas(s, x) == \E i \in DOMAIN s : s[i] = x

SetAdd(s, x) == IF SetHas(s, x) THEN s ELSE Append(s, x)

SetDelete(s, x) == SelectSeq(s, LAMBDA y : y # x)

MapHas(m, k) == \E i \in DOMAIN m : m[i].key = k

MapGet(m, k) == m[CHOOSE i \in DOMAIN m : m[i].key = k].val

MapSet(m, k, v) ==
    IF MapHas(m, k)
    THEN [i \in DOMAIN m |-> IF m[i].key = k THEN [key |-> k, val |-> v] ELSE m[i]]
    ELSE Append(m, [key |-> k, val |-> v])

MapKeys(m) == [i \in DOMAIN m |-> m[i].key]

\* F applied to the value of v, v evaluated once: a local constant
With(v, F(_)) == CHOOSE r \in {F(y) : y \in {v}} : TRUE

(***************************************************************************)
(* Terminals: the three brands of a token.                                 *)
(***************************************************************************)
brandLiteral(value) == "\"" \o value \o "\""

brandType(type) == "<" \o type \o ">"

brandEof == "(end of input)"

NoToken == [type |-> "", value |-> ""]

brandToken(token) ==
    IF token = NoToken THEN brandEof
    ELSE IF token.type = "identifier" \/ token.type = "value"
         THEN brandType(token.type)
         ELSE brandLiteral(token.value)

(***************************************************************************)
(* The surface AST (the AST type of ./core, as ASTSimplifier.simplify      *)
(* reads it).  One record shape for every node: a ruleset keeps its rules  *)
(* as the parallel sequences names and exprs, a sepBy keeps <<expr,        *)
(* separator>> in exprs, a structure its tokens in value and endToken.     *)
(***************************************************************************)
Node(type, value, endToken, exprs, names, fn) ==
    [type |-> type, value |-> value, endToken |-> endToken,
     exprs |-> exprs, names |-> names, fn |-> fn]

ErrorNode(message) == Node("error", message, "", <<>>, <<>>, "")
Ruleset(names, exprs) == Node("ruleset", "", "", exprs, names, "")
Lit(value) == Node("literal", value, "", <<>>, <<>>, "")
Term(value) == Node("terminal", value, "", <<>>, <<>>, "")
Ident(value) == Node("identifier", value, "", <<>>, <<>>, "")
Structure(startToken, expr, endToken) ==
    Node("structure", startToken, endToken, <<expr>>, <<>>, "")
\* a structure with its optional reducer
StructureFn(startToken, expr, endToken, fn) ==
    Node("structure", startToken, endToken, <<expr>>, <<>>, fn)
SeqN(exprs, fn) == Node("seq", "", "", exprs, <<>>, fn)
AltN(exprs) == Node("alt", "", "", exprs, <<>>, "")
Repeat0(expr) == Node("repeat0", "", "", <<expr>>, <<>>, "")
Repeat1(expr) == Node("repeat1", "", "", <<expr>>, <<>>, "")
Maybe(expr) == Node("maybe", "", "", <<expr>>, <<>>, "")
SepBy0(expr, separator) == Node("sepBy0", "", "", <<expr, separator>>, <<>>, "")
SepBy1(expr, separator) == Node("sepBy1", "", "", <<expr, separator>>, <<>>, "")

(***************************************************************************)
(* SimpleAST.  A rule id is a symbol, modelled as the number of the        *)
(* Symbol() call that made it; 0 is no symbol.  fn names the reducer:      *)
(* "" is null (Reduce then uses (x) => x).                                 *)
(***************************************************************************)
Simple(type, value, rule, exprs, arity, fn) ==
    [type |-> type, value |-> value, rule |-> rule,
     exprs |-> exprs, arity |-> arity, fn |-> fn]

SLiteral(value) == Simple("literal", value, 0, <<>>, 0, "")
SType(type) == Simple(type, "", 0, <<>>, 0, "")
SNonterminal(rule) == Simple("nonterminal", "", rule, <<>>, 0, "")
SRepeat0(expr) == Simple("repeat0", "", 0, <<expr>>, 0, "")
SSeq(exprs) == Simple("seq", "", 0, exprs, 0, "")
SAlt(exprs) == Simple("alt", "", 0, exprs, 0, "")
SReduce(arity, fn) == Simple("reduce", "", 0, <<>>, arity, fn)

pushNull == SReduce(0, "pushNull")
pushArr == SReduce(0, "pushArr")

(***************************************************************************)
(* ASTSimplifier, with its ScopeManager and LiteralManager.  The state of  *)
(* one simplifier: the rule table (a Map, so ordered), the scope stack,    *)
(* the literal sets, the descriptions of the symbols made so far, and the  *)
(* message of the error thrown, "" while none was.                         *)
(***************************************************************************)
NoSimple == Simple("", "", 0, <<>>, 0, "")

\* literal.match(identifierPattern): the literals of the model that are
\* shaped like an identifier
IdentifierShaped == {"x", "y", "z", "a", "b"}

identifierPattern(literal) == literal \in IdentifierShaped

\* the LiteralManager's field initialisers, in order
keywordRule == 1
operatorRule == 2

NewSimplifier ==
    [rules |-> <<>>, stack |-> <<>>, keywords |-> <<>>, operators |-> <<>>,
     desc |-> <<"keyword", "operator">>, err |-> ""]

\* Symbol(description): the symbol made is the next number
NewSymbol(st, description) == [st EXCEPT !.desc = Append(@, description)]
LastSymbol(st) == Len(st.desc)

Throw(st, message) == [st EXCEPT !.err = message]

\* LiteralManager.add
LiteralsAdd(st, literal) ==
    IF identifierPattern(literal)
    THEN [st EXCEPT !.keywords = SetAdd(@, literal)]
    ELSE [st EXCEPT !.operators = SetAdd(@, literal)]

\* LiteralManager.terminal
LiteralsTerminal(node) ==
    CASE node.value = "keyword" -> SNonterminal(keywordRule)
      [] node.value = "operator" -> SNonterminal(operatorRule)
      [] OTHER -> SType(node.value)

\* createAlts
createAlts(lits) == SAlt([i \in DOMAIN lits |-> SLiteral(lits[i])])

\* LiteralManager.compile
LiteralsCompile(st) ==
    [st EXCEPT !.rules = MapSet(MapSet(@, keywordRule, createAlts(st.keywords)),
                                operatorRule, createAlts(st.operators))]

\* a lookup in the innermost scope alone
lookup_InnermostOnly(stack, i, value) ==
    IF i = 0 THEN 0
    ELSE IF MapHas(stack[i], value) THEN MapGet(stack[i], value)
    ELSE 0

\* ScopeManager.lookup: the innermost scope that has the name; 0 when none has
RECURSIVE lookup(_, _, _)
lookup(stack, i, value) ==
    IF i = 0 THEN 0
    ELSE IF MapHas(stack[i], value) THEN MapGet(stack[i], value)
    ELSE lookup(stack, i - 1, value)

\* the first loop of ScopeManager.compileRuleset: a symbol per rule, in order,
\* a later rule of the same name replacing the scope's entry
RECURSIVE buildScope(_, _, _, _, _)
buildScope(names, i, st, scope, syms) ==
    IF i > Len(names) THEN [st |-> st, scope |-> scope, syms |-> syms]
    ELSE With(NewSymbol(st, names[i]), LAMBDA st1 :
         buildScope(names, i + 1, st1, MapSet(scope, names[i], LastSymbol(st1)),
                    Append(syms, LastSymbol(st1))))

orArr(expr) == SAlt(<<expr, pushArr>>)

RECURSIVE simplify(_, _), simplifyList(_, _, _, _), addRules(_, _, _, _)

\* node.exprs.map((expr) => this.simplify(expr))
simplifyList(exprs, i, nodes, st) ==
    IF i > Len(exprs) \/ st.err # "" THEN [nodes |-> nodes, st |-> st]
    ELSE With(simplify(exprs[i], st), LAMBDA h :
         simplifyList(exprs, i + 1, Append(nodes, h.node), h.st))

\* the second loop of compileRuleset, addRule being
\* (name, expr) => this.rules.set(name, this.simplify(expr))
addRules(syms, exprs, i, st) ==
    IF i > Len(syms) \/ st.err # "" THEN st
    ELSE With(simplify(exprs[i], st), LAMBDA r :
         IF r.st.err # "" THEN r.st
         ELSE addRules(syms, exprs, i + 1,
                       [r.st EXCEPT !.rules = MapSet(@, syms[i], r.node)]))

\* ScopeManager.compileRuleset
compileScopeRuleset(node, st) ==
    IF Len(node.names) = 0
    THEN [node |-> NoSimple, st |-> Throw(st, "should be unreachable")]
    ELSE With(buildScope(node.names, 1, st, <<>>, <<>>), LAMBDA b :
         With(addRules(b.syms, node.exprs, 1,
                       [b.st EXCEPT !.stack = Append(@, b.scope)]), LAMBDA added :
         IF added.err # "" THEN [node |-> NoSimple, st |-> added]
         ELSE [node |-> SNonterminal(MapGet(b.scope, node.names[1])),
               st |-> [added EXCEPT !.stack = SubSeq(@, 1, Len(@) - 1)]]))

\* the sepBy rule with cons for _2 as the reducer of (Sep Rule?): the
\* separator's value is kept in the list
sepByRule_KeepsSeparator(type, ruleName, e, s) ==
    IF s.st.err # "" THEN [node |-> NoSimple, st |-> s.st]
    ELSE [node |-> IF type = "sepBy0" THEN orArr(SNonterminal(ruleName))
                   ELSE SNonterminal(ruleName),
          st |-> [s.st EXCEPT !.rules = MapSet(@, ruleName,
                    SSeq(<<e.node,
                           orArr(SSeq(<<s.node, orArr(SNonterminal(ruleName)),
                                        SReduce(2, "cons")>>)),
                           SReduce(2, "cons")>>))]]

\* the sepBy0 / sepBy1 case of simplify, the rule's symbol made, from the
\* simplified expr e and separator s:  Rule = Expr (Sep Rule?)?
sepByRule(type, ruleName, e, s) ==
    IF s.st.err # "" THEN [node |-> NoSimple, st |-> s.st]
    ELSE [node |-> IF type = "sepBy0" THEN orArr(SNonterminal(ruleName))
                   ELSE SNonterminal(ruleName),
          st |-> [s.st EXCEPT !.rules = MapSet(@, ruleName,
                    SSeq(<<e.node,
                           orArr(SSeq(<<s.node, orArr(SNonterminal(ruleName)),
                                        SReduce(2, "_2")>>)),
                           SReduce(2, "cons")>>))]]

\* ASTSimplifier.simplify
simplify(node, st) ==
    IF st.err # "" THEN [node |-> NoSimple, st |-> st]
    ELSE CASE node.type = "error" ->
                [node |-> NoSimple, st |-> Throw(st, node.value)]
      [] node.type = "ruleset" -> compileScopeRuleset(node, st)
      [] node.type = "literal" ->
                [node |-> SLiteral(node.value), st |-> LiteralsAdd(st, node.value)]
      [] node.type = "terminal" -> [node |-> LiteralsTerminal(node), st |-> st]
      [] node.type = "identifier" ->
                With(lookup(st.stack, Len(st.stack), node.value), LAMBDA sym :
                IF sym = 0
                THEN [node |-> NoSimple,
                      st |-> Throw(st, "unknown identifier " \o node.value)]
                ELSE [node |-> SNonterminal(sym), st |-> st])
      [] node.type = "structure" ->
                With(simplify(node.exprs[1], LiteralsAdd(st, node.value)), LAMBDA e :
                IF e.st.err # "" THEN e
                ELSE [node |-> SSeq(<<SLiteral(node.value), e.node,
                                      SLiteral(node.endToken), SReduce(3, "_2")>>),
                      st |-> LiteralsAdd(e.st, node.endToken)])
      [] node.type = "seq" ->
                With(simplifyList(node.exprs, 1, <<>>, st), LAMBDA r :
                IF r.st.err # "" THEN [node |-> NoSimple, st |-> r.st]
                ELSE [node |-> SSeq(Append(r.nodes, SReduce(Len(node.exprs), node.fn))),
                      st |-> r.st])
      [] node.type = "alt" ->
                With(simplifyList(node.exprs, 1, <<>>, st), LAMBDA r :
                IF r.st.err # "" THEN [node |-> NoSimple, st |-> r.st]
                ELSE [node |-> SAlt(r.nodes), st |-> r.st])
      [] node.type \in {"repeat0", "repeat1", "maybe"} ->
                With(simplify(node.exprs[1], st), LAMBDA e :
                IF e.st.err # "" THEN e
                ELSE [node |->
                        CASE node.type = "repeat0" -> SRepeat0(e.node)
                          [] node.type = "repeat1" ->
                               SSeq(<<e.node, SRepeat0(e.node), SReduce(2, "cons")>>)
                          [] node.type = "maybe" -> SAlt(<<e.node, pushNull>>),
                      st |-> e.st])
      [] node.type \in {"sepBy0", "sepBy1"} ->
                With(NewSymbol(st, ""), LAMBDA st1 :
                With(simplify(node.exprs[1], st1), LAMBDA e :
                With(simplify(node.exprs[2], e.st), LAMBDA s :
                sepByRule(node.type, LastSymbol(st1), e, s))))

\* ASTSimplifier.simplifyAll: {startRule, rules, keywords, operators}, or the
\* error thrown
simplifyAll(node) ==
    With(NewSymbol(NewSimplifier, "start"), LAMBDA st1 :
    With(simplify(node, st1), LAMBDA r :
    IF r.st.err # ""
    THEN [startRule |-> LastSymbol(st1), rules |-> <<>>, keywords |-> <<>>,
          operators |-> <<>>, desc |-> r.st.desc, err |-> r.st.err]
    ELSE With(LiteralsCompile([r.st EXCEPT !.rules = MapSet(@, LastSymbol(st1), r.node)]),
              LAMBDA st2 :
         [startRule |-> LastSymbol(st1), rules |-> st2.rules, keywords |-> st2.keywords,
          operators |-> st2.operators, desc |-> st2.desc, err |-> ""])))

(***************************************************************************)
(* FirstSetBuilder.  fb is the builder: its rules, its cache (a Map from   *)
(* node to first-set) and the error thrown, "" while none was.  The cache  *)
(* map is keyed by the node itself.                                        *)
(***************************************************************************)
NewFirstSetBuilder(rules, desc) ==
    [rules |-> rules, desc |-> desc, cache |-> <<>>, err |-> ""]

FbThrow(fb, message) == [set |-> <<>>, fb |-> [fb EXCEPT !.err = message]]

\* the inner loop of the seq and alt cases:
\*   for (const terminal of ...) { if (set.has(terminal)) throw ...; set.add(terminal) }
\* conflict is the first terminal already in the set, "" when none is
\* the loop without its set.has test: every terminal is added, none conflicts
addTerminals_NoHasTest(set, terminals, i) ==
    [set |-> set \o SelectSeq(terminals, LAMBDA t : ~SetHas(set, t)), conflict |-> ""]

RECURSIVE addTerminals(_, _, _)
addTerminals(set, terminals, i) ==
    IF i > Len(terminals) THEN [set |-> set, conflict |-> ""]
    ELSE IF SetHas(set, terminals[i]) THEN [set |-> set, conflict |-> terminals[i]]
    ELSE addTerminals(Append(set, terminals[i]), terminals, i + 1)

\* the repeat0 case without its innerSet.has(brandEof) test
repeat0Set_NoEpsilonTest(innerSet, fb) ==
    [set |-> SetAdd(innerSet, brandEof), fb |-> fb]

\* the repeat0 case, innerSet computed
repeat0Set(innerSet, fb) ==
    IF SetHas(innerSet, brandEof)
    THEN FbThrow(fb, "repeat0 cannot match epsilon")
    ELSE [set |-> SetAdd(innerSet, brandEof), fb |-> fb]

RECURSIVE get(_, _, _), getInner(_, _, _), getSeq(_, _, _, _, _), getAlt(_, _, _, _, _)

\* FirstSetBuilder.get
get(node, recurSet, fb) ==
    IF fb.err # "" THEN [set |-> <<>>, fb |-> fb]
    ELSE IF MapHas(fb.cache, node) THEN [set |-> MapGet(fb.cache, node), fb |-> fb]
    ELSE With(getInner(node, recurSet, fb), LAMBDA res :
         IF res.fb.err # "" THEN res
         ELSE [set |-> res.set,
               fb |-> [res.fb EXCEPT !.cache = MapSet(@, node, res.set)]])

\* the loop of the seq case, from element i with the set built so far
getSeq(exprs, i, set, recurSet, fb) ==
    IF i > Len(exprs) THEN [set |-> set, fb |-> fb]
    ELSE With(get(exprs[i], recurSet, fb), LAMBDA g :
         IF g.fb.err # "" THEN g
         ELSE With(addTerminals(SetDelete(set, brandEof), g.set, 1), LAMBDA a :
              IF a.conflict # ""
              THEN FbThrow(g.fb, "first/follow conflict on " \o a.conflict)
              ELSE IF ~SetHas(a.set, brandEof) THEN [set |-> a.set, fb |-> g.fb]
              ELSE getSeq(exprs, i + 1, a.set, recurSet, g.fb)))

\* the loop of the alt case
getAlt(exprs, i, set, recurSet, fb) ==
    IF i > Len(exprs) THEN [set |-> set, fb |-> fb]
    ELSE With(get(exprs[i], recurSet, fb), LAMBDA g :
         IF g.fb.err # "" THEN g
         ELSE With(addTerminals(set, g.set, 1), LAMBDA a :
              IF a.conflict # ""
              THEN FbThrow(g.fb, "first/first conflict on " \o a.conflict)
              ELSE getAlt(exprs, i + 1, a.set, recurSet, g.fb)))

\* FirstSetBuilder.getInner
getInner(node, recurSet, fb) ==
    CASE node.type = "reduce" -> [set |-> <<brandEof>>, fb |-> fb]
      [] node.type = "literal" -> [set |-> <<brandLiteral(node.value)>>, fb |-> fb]
      [] node.type = "identifier" -> [set |-> <<brandType("identifier")>>, fb |-> fb]
      [] node.type = "value" -> [set |-> <<brandType("value")>>, fb |-> fb]
      [] node.type = "nonterminal" ->
            IF node.rule \in recurSet
            THEN FbThrow(fb, "left recursion on " \o fb.desc[node.rule])
            ELSE IF ~MapHas(fb.rules, node.rule)
            THEN FbThrow(fb, "TypeError")
            ELSE get(MapGet(fb.rules, node.rule), recurSet \cup {node.rule}, fb)
      [] node.type = "repeat0" ->
            With(get(node.exprs[1], recurSet, fb), LAMBDA g :
            IF g.fb.err # "" THEN g ELSE repeat0Set(g.set, g.fb))
      [] node.type = "seq" -> getSeq(node.exprs, 1, <<brandEof>>, recurSet, fb)
      [] node.type = "alt" -> getAlt(node.exprs, 1, <<>>, recurSet, fb)

(***************************************************************************)
(* The matchers (the Parser classes), one record shape for all:            *)
(* parsers holds a Seq's children or a Repeat's one, parserMap an Alt's    *)
(* dispatch Map, matchSet a Repeat's set.  A MatchRule holds the rule's    *)
(* name; the table it reads is the compiler's compiledRules.               *)
(***************************************************************************)
Matcher(class, value, rule, parsers, parserMap, matchSet, arity, fn) ==
    [class |-> class, value |-> value, rule |-> rule, parsers |-> parsers,
     parserMap |-> parserMap, matchSet |-> matchSet, arity |-> arity, fn |-> fn]

MatchType(type) == Matcher("MatchType", type, 0, <<>>, <<>>, <<>>, 0, "")
MatchLiteral(value) == Matcher("MatchLiteral", value, 0, <<>>, <<>>, <<>>, 0, "")
MatchRule(ruleName) == Matcher("MatchRule", "", ruleName, <<>>, <<>>, <<>>, 0, "")
SeqParser(parsers) == Matcher("Seq", "", 0, parsers, <<>>, <<>>, 0, "")
Reduce(arity, fn) == Matcher("Reduce", "", 0, <<>>, <<>>, <<>>, arity, fn)
AltParser(parserMap) == Matcher("Alt", "", 0, <<>>, parserMap, <<>>, 0, "")
RepeatParser(parser, matchSet) == Matcher("Repeat", "", 0, <<parser>>, <<>>, matchSet, 0, "")
NoParser == Matcher("", "", 0, <<>>, <<>>, <<>>, 0, "")

(***************************************************************************)
(* ParserCompiler.                                                         *)
(***************************************************************************)
RECURSIVE compile(_, _), compileList(_, _, _, _), compileAlt(_, _, _, _)
RECURSIVE setTerminals(_, _, _, _)

\* node.exprs.map((expr) => this.compile(expr))
compileList(exprs, i, parsers, fb) ==
    IF i > Len(exprs) \/ fb.err # "" THEN [parsers |-> parsers, fb |-> fb]
    ELSE With(compile(exprs[i], fb), LAMBDA h :
         compileList(exprs, i + 1, Append(parsers, h.parser), h.fb))

\* for (const terminal of this.firstSet.get(expr)) parserMap.set(terminal, this.compile(expr))
setTerminals(parserMap, terminals, i, parser) ==
    IF i > Len(terminals) THEN parserMap
    ELSE setTerminals(MapSet(parserMap, terminals[i], parser), terminals, i + 1, parser)

\* the loop of the alt case; a branch with an empty first-set is not compiled
compileAlt(exprs, i, parserMap, fb) ==
    IF i > Len(exprs) \/ fb.err # "" THEN [parserMap |-> parserMap, fb |-> fb]
    ELSE With(get(exprs[i], {}, fb), LAMBDA g :
         IF g.fb.err # "" \/ Len(g.set) = 0
         THEN compileAlt(exprs, i + 1, parserMap, g.fb)
         ELSE With(compile(exprs[i], g.fb), LAMBDA c :
              compileAlt(exprs, i + 1, setTerminals(parserMap, g.set, 1, c.parser), c.fb)))

\* the rest of a repeat0, seq or alt case, this.firstSet.get(node) done
compileChecked(node, fb) ==
    CASE node.type = "repeat0" ->
            With(compile(node.exprs[1], fb), LAMBDA c :
            IF c.fb.err # "" THEN c
            ELSE With(get(node.exprs[1], {}, c.fb), LAMBDA inner :
                 [parser |-> RepeatParser(c.parser, inner.set), fb |-> inner.fb]))
      [] node.type = "seq" ->
            With(compileList(node.exprs, 1, <<>>, fb), LAMBDA c :
            [parser |-> IF c.fb.err # "" THEN NoParser ELSE SeqParser(c.parsers),
             fb |-> c.fb])
      [] node.type = "alt" ->
            With(compileAlt(node.exprs, 1, <<>>, fb), LAMBDA c :
            [parser |-> IF c.fb.err # "" THEN NoParser ELSE AltParser(c.parserMap),
             fb |-> c.fb])

\* ParserCompiler.compile
compile(node, fb) ==
    IF fb.err # "" THEN [parser |-> NoParser, fb |-> fb]
    ELSE CASE node.type = "reduce" -> [parser |-> Reduce(node.arity, node.fn), fb |-> fb]
      [] node.type = "literal" -> [parser |-> MatchLiteral(node.value), fb |-> fb]
      [] node.type = "identifier" -> [parser |-> MatchType("identifier"), fb |-> fb]
      [] node.type = "value" -> [parser |-> MatchType("value"), fb |-> fb]
      [] node.type = "nonterminal" -> [parser |-> MatchRule(node.rule), fb |-> fb]
      [] node.type \in {"repeat0", "seq", "alt"} ->
            With(get(node, {}, fb), LAMBDA g :
            IF g.fb.err # "" THEN [parser |-> NoParser, fb |-> g.fb]
            ELSE compileChecked(node, g.fb))

\* the loop of ParserCompiler.compileRuleset over the rule table
RECURSIVE compileRules(_, _, _, _)
compileRules(rules, i, compiledRules, fb) ==
    IF i > Len(rules) \/ fb.err # "" THEN [compiledRules |-> compiledRules, fb |-> fb]
    ELSE With(compile(rules[i].val, fb), LAMBDA c :
         compileRules(rules, i + 1, MapSet(compiledRules, rules[i].key, c.parser), c.fb))

\* ParserCompiler.compileRuleset: the compiled rule table, or the error thrown
compileRuleset(ruleASTMap, desc) ==
    With(compileRules(ruleASTMap, 1, <<>>, NewFirstSetBuilder(ruleASTMap, desc)),
         LAMBDA c :
    [compiledRules |-> IF c.fb.err = "" THEN c.compiledRules ELSE <<>>,
     cache |-> c.fb.cache, err |-> c.fb.err])

(***************************************************************************)
(* The grammars of the compile pipeline: a ruleset of the rules A and B.   *)
(***************************************************************************)
Literals == {"x", "y"}

Leaves == {Lit(l) : l \in Literals} \cup {Ident(n) : n \in {"A", "B"}}

Items ==
    Leaves \cup {Maybe(Lit("x")), Repeat0(Lit("y")), Repeat1(Lit("y")),
                 Repeat0(Maybe(Lit("x"))), Repeat1(Maybe(Lit("x")))}

SeqsUpTo(n) == UNION {{SeqN(exprs, "") : exprs \in [1..k -> Items]} : k \in 1..n}

BodiesA ==
    Leaves \cup SeqsUpTo(MaxSeqLen)
           \cup {AltN(<<s1, s2>>) : s1 \in SeqsUpTo(MaxBranchLen), s2 \in SeqsUpTo(MaxBranchLen)}

BodiesB == Leaves

Grammars == {Ruleset(<<"A", "B">>, <<a, b>>) : a \in BodiesA, b \in BodiesB}

NoSimplified ==
    [startRule |-> 0, rules |-> <<>>, keywords |-> <<>>, operators |-> <<>>,
     desc |-> <<>>, err |-> ""]

NoCompiled == [compiledRules |-> <<>>, cache |-> <<>>, err |-> ""]

(***************************************************************************)
(* The lang compiler (the JavaScript half): infix rules.  The parsers it   *)
(* builds are those of parse-utils.mjs: seq(fn, ...parsers) calls fn with  *)
(* the values of its parsers that are not dropped, repeat(parser, 0)       *)
(* returns the array of the values of the matches in order, and            *)
(* alt(...parsers) returns the value of the parser that matches.  A value  *)
(* is a number of the subject text, or the call of a grammar's reducer on  *)
(* values; a reducer is named by the place of its chain in the rule.       *)
(***************************************************************************)
Num(n) == [fn |-> 0, args |-> <<>>, num |-> n]
Applied(fn, args) == [fn |-> fn, args |-> args, num |-> 0]
NoValue == [fn |-> 0, args |-> <<>>, num |-> 0]

\* a chain of an infix rule: [tTag, tSeq, tFn]
Chain(tag, fn) == [tag |-> tag, fn |-> fn]

\* asLeftFn with the accumulator passed last, like asRightFn
asLeftFn_AccLast(fn) == [fn |-> fn, accFirst |-> FALSE]

\* asLeftFn = (fn) => (...xs) => (acc) => fn(acc, ...xs)
asLeftFn(fn) == [fn |-> fn, accFirst |-> TRUE]

\* asRightFn with the accumulator passed first, like asLeftFn
asRightFn_AccFirst(fn) == [fn |-> fn, accFirst |-> TRUE]

\* asRightFn = (fn) => (...xs) => (acc) => fn(...xs, acc)
asRightFn(fn) == [fn |-> fn, accFirst |-> FALSE]

\* the call (...xs) of what asLeftFn or asRightFn returned, made by the
\* chain's seq when it has matched
seqValue(infixFn, xs) == [fn |-> infixFn.fn, accFirst |-> infixFn.accFirst, xs |-> xs]

\* the call (acc) of what that returned
callInfix(f, acc) ==
    IF f.accFirst THEN Applied(f.fn, <<acc>> \o f.xs) ELSE Applied(f.fn, f.xs \o <<acc>>)

\* fns.reduce((acc, fn) => fn(acc), init), from element i
RECURSIVE fnsReduce(_, _, _)
fnsReduce(fns, i, acc) ==
    IF i > Len(fns) THEN acc ELSE fnsReduce(fns, i + 1, callInfix(fns[i], acc))

\* fns.reduceRight((acc, fn) => fn(acc), init), from element i down
RECURSIVE fnsReduceRight(_, _, _)
fnsReduceRight(fns, i, acc) ==
    IF i = 0 THEN acc ELSE fnsReduceRight(fns, i - 1, callInfix(fns[i], acc))

\* compiler.altInfix: the reducers of the chains' seqs, in order, or the
\* error thrown at the first chain whose tag is not the first chain's
altInfix(ts) ==
    IF \E i \in DOMAIN ts : ts[i].tag # ts[1].tag
    THEN [err |-> "MismatchedOperatorExpressionError", hTag |-> ts[1].tag, seqs |-> <<>>]
    ELSE [err |-> "", hTag |-> ts[1].tag,
          seqs |-> [i \in DOMAIN ts |->
                      IF ts[1].tag = "leftInfix" THEN asLeftFn(ts[i].fn)
                      ELSE asRightFn(ts[i].fn)]]

\* the fn of the seq altInfix returns
infixValue(hTag, fns, init) ==
    IF hTag = "leftInfix" THEN fnsReduce(fns, 1, init)
    ELSE fnsReduceRight(fns, Len(fns), init)

Tags == {"leftInfix", "rightInfix"}

\* the chains of a rule: one to MaxAlternatives of them, each of either tag
InfixRules ==
    UNION {{[i \in 1..n |-> Chain(tags[i], i)] : tags \in [1..n -> Tags]} :
           n \in 1..MaxAlternatives}

\* the operands a chain's seq passes on: one or two values
Operands == {<<Num(1)>>, <<Num(2)>>, <<Num(1), Num(2)>>}

BaseValues == {Num(1), Num(2)}

NoInfix ==
    [ts |-> <<>>, parser |-> [err |-> "", hTag |-> "", seqs |-> <<>>], pc |-> "idle",
     init |-> NoValue, fns |-> <<>>, matched |-> <<>>, result |-> NoValue]

(***************************************************************************)
(* The lang compiler: terminals and their wrap roles.  A node of the       *)
(* grammar's AST is its tag, its value and its children; a wrapped node    *)
(* has the children start, content, end.  wrappedWith of parse-utils.mjs   *)
(* takes its content as a function and calls it when the parser runs, not  *)
(* when the parser is made (baseExpr passes () => expr before expr is      *)
(* initialised).  ctx is the compiler's context: the rules in scope, the   *)
(* role each terminal was used in, the content functions not yet called,   *)
(* and the error thrown, "" while none was.                                *)
(***************************************************************************)
JNode(type, value, exprs) == [type |-> type, value |-> value, exprs |-> exprs]

JLiteral(value) == JNode("literal", value, <<>>)
JIdentifier(name) == JNode("identifier", name, <<>>)
JWrapped(start, content, end) == JNode("wrapped", "", <<start, content, end>>)
JSeq(exprs) == JNode("seq", "", exprs)

NewCtx == [scope |-> {}, usedTerminals |-> <<>>, thunks |-> <<>>, err |-> ""]

\* WrapCtxError's message
WrapCtxError(value, top, bottom) ==
    "\"" \o value \o "\" cannot be used as both " \o top \o " and " \o bottom

\* compileTerminal
compileTerminal(value, ctx, wrapCtx) ==
    IF MapHas(ctx.usedTerminals, value) /\ MapGet(ctx.usedTerminals, value) # wrapCtx
    THEN [ctx EXCEPT !.err = WrapCtxError(value, wrapCtx, MapGet(ctx.usedTerminals, value))]
    ELSE [ctx EXCEPT !.usedTerminals = MapSet(@, value, wrapCtx)]

\* wrappedWith: the parser is made, its content function is kept
wrappedWith(content, ctx) == [ctx EXCEPT !.thunks = Append(@, content)]

\* ctx.eval and ctx.evalWith(wrapCtx): the handler of the node's tag
RECURSIVE eval(_, _, _), evalList(_, _, _)
eval(node, ctx, wrapCtx) ==
    IF ctx.err # "" THEN ctx
    ELSE CASE node.type = "literal" -> compileTerminal(node.value, ctx, wrapCtx)
      [] node.type = "identifier" ->
            IF node.value \in ctx.scope THEN ctx
            ELSE [ctx EXCEPT !.err = "UnknownRuleError"]
      [] node.type = "seq" -> evalList(node.exprs, 1, ctx)
      [] node.type = "wrapped" ->
            With(eval(node.exprs[1], ctx, "startToken"), LAMBDA started :
            IF started.err # "" THEN started
            ELSE eval(node.exprs[3], wrappedWith(node.exprs[2], started), "endToken"))

\* exprs.map(ctx.eval)
evalList(exprs, i, ctx) ==
    IF i > Len(exprs) \/ ctx.err # "" THEN ctx
    ELSE evalList(exprs, i + 1, eval(exprs[i], ctx, "contentToken"))

\* the rule handler, for the rules from the i-th up to the first
RECURSIVE evalRules(_, _, _)
evalRules(rules, i, ctx) ==
    IF i = 0 \/ ctx.err # "" THEN ctx
    ELSE With(eval(rules[i].expr, ctx, "contentToken"), LAMBDA c :
         evalRules(rules, i - 1,
                   IF c.err # "" THEN c ELSE [c EXCEPT !.scope = @ \cup {rules[i].name}]))

\* the program handler, for a grammar of rules
program(rules) == evalRules(rules, Len(rules), NewCtx)

\* a content function is called: () => wrapIgnoreLines(ctx.eval(content))
callContent(ctx, i) ==
    eval(ctx.thunks[i],
         [ctx EXCEPT !.thunks = SubSeq(@, 1, i - 1) \o SubSeq(@, i + 1, Len(@))],
         "contentToken")

JLiterals == {"(", ")", "x"}
JLeaves == {JLiteral(v) : v \in JLiterals} \cup {JIdentifier(n) : n \in {"A", "B"}}

\* a leaf, a sequence of two leaves, or up to depth wrappings of one
RECURSIVE JBodies(_)
JBodies(depth) ==
    IF depth = 0 THEN JLeaves \cup {JSeq(<<l1, l2>>) : l1 \in JLeaves, l2 \in JLeaves}
    ELSE JBodies(0) \cup {JWrapped(JLiteral(s), c, JLiteral(e)) :
                            s \in JLiterals, c \in JBodies(depth - 1), e \in JLiterals}

JRule(name, expr) == [name |-> name, expr |-> expr]

JGrammars ==
    {<<JRule("A", a), JRule("B", b)>> : a \in JBodies(MaxWrapDepth), b \in JLeaves}

NoWrap == [rules |-> <<>>, ctx |-> NewCtx, pc |-> "idle"]

(***************************************************************************)
(* The tokenizer.  A text fragment is a sequence of characters, a          *)
(* character a string of length one; the values of tokens and of           *)
(* interpolations are of one record shape.  The character classes are the  *)
(* ASCII part of the classes the patterns name.                            *)
(***************************************************************************)
JsValue(kind, chars, num) == [kind |-> kind, chars |-> chars, num |-> num]

JsString(chars) == JsValue("string", chars, 0)
JsNumber(n) == JsValue("number", <<>>, n)
JsNaN == JsValue("NaN", <<>>, 0)
JsNull == JsValue("null", <<>>, 0)
\* a number written with a fraction or an exponent: its text, not evaluated
JsDecimal(chars) == JsValue("decimal", chars, 0)

DigitChars == <<"0", "1", "2", "3", "4", "5", "6", "7", "8", "9">>

\* the decimal digits of a natural number
RECURSIVE digitsOf(_)
digitsOf(n) ==
    IF n < 10 THEN <<DigitChars[n + 1]>>
    ELSE Append(digitsOf(n \div 10), DigitChars[(n % 10) + 1])

\* String(value)
String(v) ==
    CASE v.kind = "string" -> v.chars
      [] v.kind = "number" ->
            IF v.num < 0 THEN <<"-">> \o digitsOf(0 - v.num) ELSE digitsOf(v.num)
      [] v.kind = "NaN" -> <<"N", "a", "N">>
      [] v.kind = "null" -> <<"n", "u", "l", "l">>
      [] v.kind = "decimal" -> v.chars

Digits == Range(DigitChars)
HexLetters == <<"a", "b", "c", "d", "e", "f", "A", "B", "C", "D", "E", "F">>
HexDigits == Digits \cup Range(HexLetters)

\* \p{ID_Start} and \p{ID_Continue}
IdStart ==
    {"a", "b", "c", "d", "e", "f", "g", "h", "i", "j", "k", "l", "m", "n", "o", "p",
     "q", "r", "s", "t", "u", "v", "w", "x", "y", "z", "A", "B", "C", "D", "E", "F",
     "G", "H", "I", "J", "K", "L", "M", "N", "O", "P", "Q", "R", "S", "T", "U", "V",
     "W", "X", "Y", "Z"}
IdContinue == IdStart \cup Digits \cup {"_"}

\* [ \t\n], [;{}()[\],] and [!@#%^&*\-+=|/:<>.?~]
Whitespace == {" ", "\t", "\n"}
Punctuation == {";", "{", "}", "(", ")", "[", "]", ","}
OperatorChars ==
    {"!", "@", "#", "%", "^", "&", "*", "-", "+", "=", "|", "/", ":", "<", ">", ".",
     "?", "~"}

\* the character after the first i of buf, "" when there is none
CharAt(buf, i) == IF i < Len(buf) THEN buf[i + 1] ELSE ""

\* class*: where the longest run of characters of the class from i ends
RECURSIVE RunEnd(_, _, _)
RunEnd(buf, i, class) ==
    IF CharAt(buf, i) \in class THEN RunEnd(buf, i + 1, class) ELSE i

\* the index of a digit in its sequence, from 0
DigitValue(digits, ch) == (CHOOSE k \in DOMAIN digits : digits[k] = ch) - 1

\* the value of digits in a base; the hexadecimal letters count from 10
RECURSIVE valueIn(_, _, _)
valueIn(chars, base, acc) ==
    IF chars = <<>> THEN acc
    ELSE valueIn(Tail(chars), base,
                 acc * base
                    + (IF Head(chars) \in Digits THEN DigitValue(DigitChars, Head(chars))
                       ELSE 10 + (DigitValue(HexLetters, Head(chars)) % 6)))

\* Number(matchedString), for a string one of the number patterns matched
Number(chars) ==
    IF \E k \in DOMAIN chars : chars[k] = "_" THEN JsNaN
    ELSE IF Len(chars) > 2 /\ chars[2] \in {"x", "o", "b"}
    THEN JsNumber(valueIn(SubSeq(chars, 3, Len(chars)),
                          CASE chars[2] = "x" -> 16 [] chars[2] = "o" -> 8
                            [] chars[2] = "b" -> 2, 0))
    ELSE IF \E k \in DOMAIN chars : chars[k] \in {".", "e", "E"} THEN JsDecimal(chars)
    ELSE IF chars[1] = "-" THEN JsNumber(0 - valueIn(Tail(chars), 10, 0))
    ELSE JsNumber(valueIn(chars, 10, 0))

\* what a pattern's exec gives at index i of buf: the capture group that
\* matched (0 when the pattern does not match there) and where the match ends
Match(group, end) == [group |-> group, end |-> end]

\* the number pattern -?[0-9_]+(?:\.[0-9_]*)?(?:[eE]-?[0-9_])? from index i
\* on, the sign already passed: 0 when it does not match
numberEnd(buf, i) ==
    IF CharAt(buf, i) \notin Digits \cup {"_"} THEN 0
    ELSE With(RunEnd(buf, i, Digits \cup {"_"}), LAMBDA whole :
         With(IF CharAt(buf, whole) = "." THEN RunEnd(buf, whole + 1, Digits \cup {"_"})
              ELSE whole, LAMBDA fraction :
         With(IF CharAt(buf, fraction + 1) = "-" THEN fraction + 2 ELSE fraction + 1,
              LAMBDA digit :
         IF CharAt(buf, fraction) \in {"e", "E"} /\ CharAt(buf, digit) \in Digits \cup {"_"}
         THEN digit + 1 ELSE fraction)))

\* mainPattern: the nine alternatives in order, each a capture group
mainPattern(buf, i) ==
    With(CharAt(buf, i), LAMBDA ch :
    With(CharAt(buf, i + 1), LAMBDA ch2 :
    IF ch \in Whitespace THEN Match(1, RunEnd(buf, i, Whitespace))
    ELSE IF ch = "/" /\ ch2 = "/" THEN Match(2, i + 2)
    ELSE IF ch = "/" /\ ch2 = "*" THEN Match(3, i + 2)
    ELSE IF ch = "0" /\ ch2 = "x" /\ CharAt(buf, i + 2) \in HexDigits \cup {"_"}
    THEN Match(4, RunEnd(buf, i + 2, HexDigits \cup {"_"}))
    ELSE IF ch = "0" /\ ch2 = "o"
            /\ CharAt(buf, i + 2) \in {"0", "1", "2", "3", "4", "5", "6", "7", "_"}
    THEN Match(5, RunEnd(buf, i + 2, {"0", "1", "2", "3", "4", "5", "6", "7", "_"}))
    ELSE IF ch = "0" /\ ch2 = "b" /\ CharAt(buf, i + 2) \in {"0", "1", "_"}
    THEN Match(6, RunEnd(buf, i + 2, {"0", "1", "_"}))
    ELSE IF numberEnd(buf, IF ch = "-" THEN i + 1 ELSE i) # 0
    THEN Match(7, numberEnd(buf, IF ch = "-" THEN i + 1 ELSE i))
    ELSE IF ch \in IdStart \cup {"$", "_"}
    THEN Match(8, RunEnd(buf, i + 1, IdContinue \cup {"$"}))
    ELSE IF ch \in Punctuation THEN Match(9, i + 1)
    ELSE IF ch \in OperatorChars THEN Match(9, RunEnd(buf, i, OperatorChars))
    ELSE Match(0, i)))

\* (?:\\[q\\]|[^\nq\\])+ : where the body of a string quoted with q ends
RECURSIVE quoteBodyEnd(_, _, _)
quoteBodyEnd(buf, i, q) ==
    IF CharAt(buf, i) = "\\"
    THEN IF CharAt(buf, i + 1) \in {q, "\\"} THEN quoteBodyEnd(buf, i + 2, q) ELSE i
    ELSE IF CharAt(buf, i) \notin {"", "\n", q} THEN quoteBodyEnd(buf, i + 1, q)
    ELSE i

\* singleQuotePattern and doubleQuotePattern, by their quote character
quotePattern(q, buf, i) ==
    IF quoteBodyEnd(buf, i, q) > i THEN Match(1, quoteBodyEnd(buf, i, q))
    ELSE IF CharAt(buf, i) = q THEN Match(2, i + 1)
    ELSE Match(0, i)

\* lineCommentPattern
lineCommentPattern(buf, i) ==
    IF CharAt(buf, i) \notin {"", "\n"} THEN Match(1, RunEnd(buf, i, Range(buf) \ {"\n"}))
    ELSE IF CharAt(buf, i) = "\n" THEN Match(2, i + 1)
    ELSE Match(0, i)

\* (?:\*[^/]|[^*])+ : where the body of a block comment ends
RECURSIVE blockBodyEnd(_, _)
blockBodyEnd(buf, i) ==
    IF CharAt(buf, i) = "*"
    THEN IF CharAt(buf, i + 1) \notin {"", "/"} THEN blockBodyEnd(buf, i + 2) ELSE i
    ELSE IF CharAt(buf, i) # "" THEN blockBodyEnd(buf, i + 1)
    ELSE i

\* blockCommentPattern
blockCommentPattern(buf, i) ==
    IF blockBodyEnd(buf, i) > i THEN Match(1, blockBodyEnd(buf, i))
    ELSE IF CharAt(buf, i) = "*" /\ CharAt(buf, i + 1) = "/" THEN Match(2, i + 2)
    ELSE Match(0, i)

\* pattern.exec(buf) with pattern.lastIndex = i, by the pattern's name
exec(pattern, buf, i) ==
    CASE pattern = "main" -> mainPattern(buf, i)
      [] pattern \in {"'", "\""} -> quotePattern(pattern, buf, i)
      [] pattern = "line" -> lineCommentPattern(buf, i)
      [] pattern = "block" -> blockCommentPattern(buf, i)

\* a Token: its content and its position
LexerToken(type, value, index, outerIndex, length) ==
    [type |-> type, value |-> value, index |-> index, outerIndex |-> outerIndex,
     length |-> length]

NoLexerToken == LexerToken("", JsNull, 0, 0, 0)

\* new LexerState(strings, interps)
NewLexerState(strings, interps) ==
    [strings |-> strings, interps |-> interps, index |-> 0, outerIndex |-> 0,
     tokens |-> <<>>]

\* LexerState.push
lexerPush(ls, token) ==
    IF token = NoLexerToken THEN ls ELSE [ls EXCEPT !.tokens = Append(@, token)]

\* LexerState.getInterpolation: the token (none past the last interpolation)
\* and the state, moved to the start of the next fragment
getInterpolation(ls) ==
    [token |-> IF ls.outerIndex < Len(ls.interps)
               THEN LexerToken("value", ls.interps[ls.outerIndex + 1], 0,
                               ls.outerIndex + 1, 0)
               ELSE NoLexerToken,
     state |-> [ls EXCEPT !.outerIndex = @ + 1, !.index = 0]]

\* LexerState.hasStrings
hasStrings(ls) == ls.outerIndex < Len(ls.strings)

\* LexerState.nextChar: "" for undefined
nextChar(ls) ==
    IF ~hasStrings(ls) THEN "" ELSE CharAt(ls.strings[ls.outerIndex + 1], ls.index)

\* LexerState.matchPattern: the match, its text, and the state with the
\* index moved past it
matchPattern(ls, pattern) ==
    With(exec(pattern, ls.strings[ls.outerIndex + 1], ls.index), LAMBDA m :
    [group |-> m.group,
     text |-> SubSeq(ls.strings[ls.outerIndex + 1], ls.index + 1, m.end),
     state |-> IF m.group = 0 THEN ls ELSE [ls EXCEPT !.index = m.end]])

(***************************************************************************)
(* One call of tokenize: its LexerState, the function that is running (at: *)
(* mainState, quote or comment), the pattern quote or comment was called   *)
(* with, quote's token, and the error thrown.                              *)
(***************************************************************************)
NoLexer ==
    [ls |-> NewLexerState(<<>>, <<>>), at |-> "idle", pattern |-> "",
     token |-> NoLexerToken, message |-> ""]

\* tokenize(strs, interps), up to the call of mainState
tokenize(strs, interps) ==
    [ls |-> NewLexerState(strs, interps), at |-> "main", pattern |-> "",
     token |-> NoLexerToken, message |-> ""]

lexerThrow(lx, message) == [lx EXCEPT !.at = "threw", !.message = message]

\* mainState, one pass of the inner loop: the switch on the next character
mainChar(lx) ==
    IF nextChar(lx.ls) \in {"'", "\""}
    THEN [lx EXCEPT !.ls.index = @ + 1, !.at = "quote", !.pattern = nextChar(lx.ls),
                    !.token = LexerToken("value", JsString(<<>>), lx.ls.index,
                                         lx.ls.outerIndex, 1)]
    ELSE With(matchPattern(lx.ls, "main"), LAMBDA m :
         CASE m.group = 0 -> lexerThrow(lx, "NoTokenMatchError")
           [] m.group = 1 -> [lx EXCEPT !.ls = m.state]
           [] m.group = 2 -> [lx EXCEPT !.ls = m.state, !.at = "comment", !.pattern = "line"]
           [] m.group = 3 -> [lx EXCEPT !.ls = m.state, !.at = "comment", !.pattern = "block"]
           [] m.group \in 4..7 ->
                [lx EXCEPT !.ls = lexerPush(m.state,
                    LexerToken("value", Number(m.text), lx.ls.index, lx.ls.outerIndex,
                               Len(m.text)))]
           [] m.group = 8 ->
                [lx EXCEPT !.ls = lexerPush(m.state,
                    LexerToken("identifier", JsString(m.text), lx.ls.index,
                               lx.ls.outerIndex, Len(m.text)))]
           [] m.group = 9 ->
                [lx EXCEPT !.ls = lexerPush(m.state,
                    LexerToken("operator", JsString(m.text), lx.ls.index,
                               lx.ls.outerIndex, Len(m.text)))])

\* mainState, the end of a fragment: lexerState.push(lexerState.getInterpolation())
mainInterpolation(lx) ==
    [lx EXCEPT !.ls = lexerPush(getInterpolation(lx.ls).state, getInterpolation(lx.ls).token)]

\* mainState returns, and tokenize returns lexerState.getTokens()
mainReturn(lx) == [lx EXCEPT !.at = "returned"]

\* quote, one pass of the inner loop
quoteChar(lx) ==
    With(matchPattern(lx.ls, lx.pattern), LAMBDA m :
    CASE m.group = 0 -> lexerThrow(lx, "newline not allowed in string")
      [] m.group = 1 ->
            [lx EXCEPT !.ls = m.state,
                       !.token.value = JsString(@.chars \o m.text),
                       !.token.length = @ + Len(m.text)]
      [] m.group = 2 ->
            [lx EXCEPT !.ls = lexerPush(m.state, [lx.token EXCEPT !.length = @ + 1]),
                       !.at = "main", !.pattern = "", !.token = NoLexerToken])

\* the interpolated value's text counted in the token's length
quoteInterpolation_CountsValue(lx) ==
    With(getInterpolation(lx.ls), LAMBDA g :
    [lx EXCEPT !.ls = g.state,
               !.token.value = IF g.token = NoLexerToken THEN @
                               ELSE JsString(@.chars \o String(g.token.value)),
               !.token.length = IF g.token = NoLexerToken THEN @
                                ELSE @ + Len(String(g.token.value))])

\* quote, the end of a fragment: the interpolated value goes into the string
quoteInterpolation(lx) ==
    With(getInterpolation(lx.ls), LAMBDA g :
    [lx EXCEPT !.ls = g.state,
               !.token.value = IF g.token = NoLexerToken THEN @
                               ELSE JsString(@.chars \o String(g.token.value))])

\* quote, past the last fragment
quoteLeftOpen(lx) == lexerThrow(lx, "string left open")

\* comment, one pass of the inner loop: if (!match || match[2]) return
commentChar(lx) ==
    With(matchPattern(lx.ls, lx.pattern), LAMBDA m :
    IF m.group = 1 THEN [lx EXCEPT !.ls = m.state]
    ELSE [lx EXCEPT !.ls = m.state, !.at = "main", !.pattern = ""])

\* comment, the end of a fragment: the interpolation is dropped
commentInterpolation(lx) == [lx EXCEPT !.ls = getInterpolation(lx.ls).state]

\* comment, past the last fragment
commentReturn(lx) == [lx EXCEPT !.at = "main", !.pattern = ""]

(***************************************************************************)
(* The runtime.  A value on the value stack is one record shape: a string  *)
(* (a token's value), an array, null or undefined.  A token is its type    *)
(* and value; its position fields take no part in parsing.                 *)
(***************************************************************************)
Val(kind, str, items) == [kind |-> kind, str |-> str, items |-> items]

Str(s) == Val("string", s, <<>>)
Arr(items) == Val("array", "", items)
Null == Val("null", "", <<>>)
Undefined == Val("undefined", "", <<>>)
TypeError == Val("TypeError", "", <<>>)

Token(type, value) == [type |-> type, value |-> value]

\* the reducers: a Reduce's fn by name.  "" is null, for which Reduce uses
\* (x) => x; "append" is Repeat's (arr, x) => [...arr, x]; "list" is a
\* grammar's own reducer (...xs) => xs.  cons spreads its second argument,
\* which throws a TypeError on null and undefined.
call(fn, args) ==
    CASE fn = "" -> IF Len(args) = 0 THEN Undefined ELSE args[1]
      [] fn = "_2" -> IF Len(args) < 2 THEN Undefined ELSE args[2]
      [] fn = "cons" ->
            IF Len(args) < 2 \/ args[2].kind # "array" THEN TypeError
            ELSE Arr(<<args[1]>> \o args[2].items)
      [] fn = "pushNull" -> Null
      [] fn = "pushArr" -> Arr(<<>>)
      [] fn = "append" ->
            IF args[1].kind # "array" THEN TypeError
            ELSE Arr(Append(args[1].items, args[2]))
      [] fn = "list" -> Arr(args)

\* ParseState: the cursor (index, from 0) and the value stack (results)
NewParseState(tokens) == [tokens |-> tokens, index |-> 0, results |-> <<>>]

\* ParseState.next: the token at the cursor (none past the end), cursor moved
next(state) ==
    [token |-> IF state.index < Len(state.tokens)
               THEN state.tokens[state.index + 1] ELSE NoToken,
     state |-> [state EXCEPT !.index = @ + 1]]

\* ParseState.peek
peek(state) ==
    IF state.index < Len(state.tokens) THEN state.tokens[state.index + 1] ELSE NoToken

\* ParseState.push
push(state, x) == [state EXCEPT !.results = Append(@, x)]

\* the arguments ParseState.reduce collects: the top arity values, in the
\* order they were pushed; a pop of the empty stack gives undefined
reduceArgs(results, arity) ==
    IF Len(results) >= arity
    THEN SubSeq(results, Len(results) - arity + 1, Len(results))
    ELSE [i \in 1..(arity - Len(results)) |-> Undefined] \o results

\* a reduce that pushes fn's result and leaves the arguments on the stack
reduce_KeepsArguments(state, arity, fn) ==
    [state EXCEPT !.results = Append(@, call(fn, reduceArgs(@, arity)))]

\* ParseState.reduce
reduce(state, arity, fn) ==
    [state EXCEPT !.results =
        Append(IF Len(@) >= arity THEN SubSeq(@, 1, Len(@) - arity) ELSE <<>>,
               call(fn, reduceArgs(@, arity)))]

\* ParseState.done: the value results.pop() returns, and the state it leaves
done(state) ==
    IF Len(state.results) = 0 THEN [value |-> Undefined, state |-> state]
    ELSE [value |-> state.results[Len(state.results)],
          state |-> [state EXCEPT !.results = SubSeq(@, 1, Len(@) - 1)]]

(***************************************************************************)
(* One invocation of the function createParser returns: its ParseState,    *)
(* the stack of the parse methods that are running (control: a matcher and *)
(* how far its method got), and how it ended: the value returned, or the   *)
(* message and the _stack of the error thrown (trace).  overlapped records *)
(* that a step was taken while another invocation was running.             *)
(***************************************************************************)
Frame(parser, pc) == [parser |-> parser, pc |-> pc]

\* the frames of a ParseError's _stack: a token, or a RuleFrame
TokenFrame(token) == [type |-> token.type, value |-> token.value, name |-> 0]
RuleFrame(name) == [type |-> "rule", value |-> "", name |-> name]

IdleCall ==
    [state |-> NewParseState(<<>>), control |-> <<>>, status |-> "idle",
     value |-> Undefined, message |-> "", trace |-> <<>>, overlapped |-> FALSE]

\* (strs, ...xs) => { ... new ParseState(tokens); parser.parse(parseState) ...
NewCall(parser, tokens) ==
    [state |-> NewParseState(tokens), control |-> <<Frame(parser, 0)>>,
     status |-> "running", value |-> Undefined, message |-> "", trace |-> <<>>,
     overlapped |-> FALSE]

Top(c) == c.control[Len(c.control)]

\* a parse method returns
Pop(c) == [c EXCEPT !.control = SubSeq(@, 1, Len(@) - 1)]

\* the call stack is exhausted: a RangeError, which is no ParseError, so no
\* catch block adds a frame
throwRangeError(c) ==
    [c EXCEPT !.status = "threw", !.control = <<>>, !.message = "RangeError"]

\* a parse method calls parser.parse(state), to resume at pc; the call stack
\* holds MaxStack calls
Enter(c, pc, parser) ==
    IF Len(c.control) >= MaxStack THEN throwRangeError(c)
    ELSE [c EXCEPT !.control = Append([@ EXCEPT ![Len(@)].pc = pc], Frame(parser, 0))]

\* the rule frames pushed outermost first
RuleFrames_OutermostFirst(control, i) ==
    [k \in 1..Len(SelectSeq(SubSeq(control, 1, i),
                            LAMBDA f : f.parser.class = "MatchRule")) |->
        RuleFrame(SelectSeq(SubSeq(control, 1, i),
                            LAMBDA f : f.parser.class = "MatchRule")[k].parser.rule)]

\* the catch blocks of the MatchRule.parse calls a ParseError passes, the
\* innermost first: each pushes its rule's frame
RECURSIVE RuleFrames(_, _)
RuleFrames(control, i) ==
    IF i = 0 THEN <<>>
    ELSE (IF control[i].parser.class = "MatchRule"
          THEN <<RuleFrame(control[i].parser.rule)>> ELSE <<>>)
         \o RuleFrames(control, i - 1)

\* throw new MatchError(expected, received), and its way out of every
\* running parse method
throwMatchError(c, expected, received) ==
    [c EXCEPT !.status = "threw", !.control = <<>>,
              !.message = "Expected " \o expected \o ", received " \o brandToken(received),
              !.trace = (IF received = NoToken THEN <<>> ELSE <<TokenFrame(received)>>)
                        \o RuleFrames(c.control, Len(c.control))]

\* an error that is no ParseError: no catch block adds a frame
throwTypeError(c) ==
    [c EXCEPT !.status = "threw", !.control = <<>>, !.message = "TypeError"]

\* [...this.parserMap.keys()].join()
RECURSIVE Join(_, _)
Join(keys, i) ==
    IF i > Len(keys) THEN ""
    ELSE IF i = Len(keys) THEN keys[i]
    ELSE keys[i] \o "," \o Join(keys, i + 1)

\* MatchType.parse
parseMatchType(c, p) ==
    With(next(c.state), LAMBDA n :
    IF n.token = NoToken \/ n.token.type # p.value
    THEN throwMatchError([c EXCEPT !.state = n.state], brandType(p.value), n.token)
    ELSE Pop([c EXCEPT !.state = push(n.state, Str(n.token.value))]))

\* MatchLiteral.parse
parseMatchLiteral(c, p) ==
    With(next(c.state), LAMBDA n :
    IF \/ n.token = NoToken
       \/ n.token.type \notin {"operator", "keyword"}
       \/ n.token.value # p.value
    THEN throwMatchError([c EXCEPT !.state = n.state], brandLiteral(p.value), n.token)
    ELSE Pop([c EXCEPT !.state = push(n.state, Str(n.token.value))]))

\* MatchRule.parse: the rule's matcher is looked up in the table when the
\* method runs
parseMatchRule(c, p, pc, compiledRules) ==
    IF pc = 1 THEN Pop(c)
    ELSE IF ~MapHas(compiledRules, p.rule) THEN throwTypeError(c)
    ELSE Enter(c, 1, MapGet(compiledRules, p.rule))

\* Seq.parse: pc children have run
parseSeq(c, p, pc) ==
    IF pc = Len(p.parsers) THEN Pop(c) ELSE Enter(c, pc + 1, p.parsers[pc + 1])

\* Reduce.parse
parseReduce(c, p) ==
    With(reduce(c.state, p.arity, p.fn), LAMBDA s :
    IF s.results[Len(s.results)] = TypeError THEN throwTypeError(c)
    ELSE Pop([c EXCEPT !.state = s]))

\* Alt.parse
parseAlt(c, p, pc) ==
    IF pc = 1 THEN Pop(c)
    ELSE IF MapHas(p.parserMap, brandToken(peek(c.state)))
    THEN Enter(c, 1, MapGet(p.parserMap, brandToken(peek(c.state))))
    ELSE IF MapHas(p.parserMap, brandEof)
    THEN Enter(c, 1, MapGet(p.parserMap, brandEof))
    ELSE throwMatchError(c, Join(MapKeys(p.parserMap), 1), peek(c.state))

\* Repeat.parse: pc 0 at entry, 1 at the head of the loop, 2 after
\* this.parser.parse
parseRepeat(c, p, pc) ==
    CASE pc = 0 -> [c EXCEPT !.state = push(@, Arr(<<>>)), !.control[Len(c.control)].pc = 1]
      [] pc = 1 ->
            IF peek(c.state) = NoToken \/ ~SetHas(p.matchSet, brandToken(peek(c.state)))
            THEN Pop(c)
            ELSE Enter(c, 2, p.parsers[1])
      [] pc = 2 ->
            [c EXCEPT !.state = reduce(@, 2, "append"), !.control[Len(c.control)].pc = 1]

\* one step of the parse method on top of the control stack
step(c, compiledRules) ==
    CASE Top(c).parser.class = "MatchType" -> parseMatchType(c, Top(c).parser)
      [] Top(c).parser.class = "MatchLiteral" -> parseMatchLiteral(c, Top(c).parser)
      [] Top(c).parser.class = "MatchRule" ->
            parseMatchRule(c, Top(c).parser, Top(c).pc, compiledRules)
      [] Top(c).parser.class = "Seq" -> parseSeq(c, Top(c).parser, Top(c).pc)
      [] Top(c).parser.class = "Reduce" -> parseReduce(c, Top(c).parser)
      [] Top(c).parser.class = "Alt" -> parseAlt(c, Top(c).parser, Top(c).pc)
      [] Top(c).parser.class = "Repeat" -> parseRepeat(c, Top(c).parser, Top(c).pc)

\* return parseState.done()
return(c) ==
    [c EXCEPT !.status = "returned", !.value = done(c.state).value,
              !.state = done(c.state).state]

\* the function createParser returns, run from its call to its end with
\* nothing else running
RECURSIVE finish(_, _)
finish(c, compiledRules) ==
    IF c.status # "running" THEN c
    ELSE IF c.control = <<>> THEN return(c)
    ELSE finish(step(c, compiledRules), compiledRules)

\* how an invocation ended
Outcome(c) ==
    [status |-> c.status, value |-> c.value, message |-> c.message, trace |-> c.trace]

\* const parser = parserMap.get(startRule)!
startParser == MapGet(compiled.compiledRules, simplified.startRule)

runAlone(tokens) == Outcome(finish(NewCall(startParser, tokens), compiled.compiledRules))

(***************************************************************************)
(* The grammars and the token sequences of the runtime.  A token sequence  *)
(* stands for what the lexer makes of a subject text: a literal of the     *)
(* grammar becomes a keyword token when it is shaped like an identifier,   *)
(* an operator token otherwise.                                            *)
(***************************************************************************)
Callers == {1, 2}

\* the values the value and identifier tokens carry
Values == {"1", "2"}

LiteralToken(value) ==
    Token(IF identifierPattern(value) THEN "keyword" ELSE "operator", value)

\* Expr = ["(" Expr ")"] | %value
ParenGrammar ==
    Ruleset(<<"Expr">>, <<AltN(<<Structure("(", Ident("Expr"), ")"), Term("value")>>)>>)

\* n opening parentheses, the value v, m closing parentheses
ParenInput(n, v, m) ==
    [i \in 1..n |-> LiteralToken("(")] \o <<Token("value", v)>>
        \o [i \in 1..m |-> LiteralToken(")")]

ParenInputs(depth, values) ==
    {ParenInput(n, v, m) : n \in 0..depth, m \in 0..depth, v \in values}

\* item / separator, empty or not
ListItems == {Term("value"), Term("identifier")}
ListSeparators == {Lit(","), Lit("a")}

ListGrammars ==
    {SepBy0(item, sep) : item \in ListItems, sep \in ListSeparators}
        \cup {SepBy1(item, sep) : item \in ListItems, sep \in ListSeparators}

ItemToken(g, v) == Token(g.exprs[1].value, v)
SepToken(g) == LiteralToken(g.exprs[2].value)

\* the items of the given values with one separator between consecutive ones,
\* then one trailing separator if trailing
ListInput(g, values, trailing) ==
    [i \in 1..(2 * Len(values) - (IF Len(values) = 0 THEN 0 ELSE 1)) |->
        IF i % 2 = 1 THEN ItemToken(g, values[(i + 1) \div 2]) ELSE SepToken(g)]
        \o (IF trailing THEN <<SepToken(g)>> ELSE <<>>)

SeqsOf(S, n) == UNION {[1..k -> S] : k \in 0..n}

ListInputs(g, items, values) ==
    {ListInput(g, vs, t) : vs \in SeqsOf(values, items), t \in BOOLEAN}

\* Expr = ["(" Expr* ")"] | %identifier
RepeatGrammar ==
    Ruleset(<<"Expr">>,
            <<AltN(<<Structure("(", Repeat0(Ident("Expr")), ")"), Term("identifier")>>)>>)

RepeatTokens == {LiteralToken("("), LiteralToken(")"), Token("identifier", "1")}

RunGrammars == {ParenGrammar, RepeatGrammar} \cup ListGrammars

SharedGrammars == {ParenGrammar, SepBy0(Term("value"), Lit(","))}

Inputs(g, depth, items, len, values) ==
    IF g = ParenGrammar THEN ParenInputs(depth, values)
    ELSE IF g = RepeatGrammar THEN SeqsOf(RepeatTokens, len)
    ELSE ListInputs(g, items, values)

(***************************************************************************)
(* Invocations of a compiled parser.  createParser has run on the grammar; *)
(* a caller invokes the function it returned, the invocation runs step by  *)
(* step and ends, and the caller may invoke it again.                      *)
(***************************************************************************)
Created(grammars) ==
    /\ ast \in grammars
    /\ simplified = simplifyAll(ast)
    /\ compiled = compileRuleset(simplified.rules, simplified.desc)
    /\ phase = IF simplified.err = "" /\ compiled.err = "" THEN "compiled" ELSE "failed"
    /\ calls = [c \in Callers |-> IdleCall]
    /\ infix = NoInfix
    /\ wrap = NoWrap
    /\ lexer = NoLexer

\* an invocation whose ParseState is the caller's previous one, given the
\* new tokens: the cursor and the value stack are not fresh
Invoke_ReusedState(c, tokens) ==
    /\ phase = "compiled"
    /\ calls[c].status # "running"
    /\ calls' = [calls EXCEPT ![c] =
                    [NewCall(startParser, tokens) EXCEPT
                        !.state = [calls[c].state EXCEPT !.tokens = tokens]]]
    /\ UNCHANGED <<ast, phase, simplified, compiled, infix, wrap, lexer>>

\* the caller invokes the parser on the tokens
Invoke(c, tokens) ==
    /\ phase = "compiled"
    /\ calls[c].status # "running"
    /\ calls' = [calls EXCEPT ![c] = NewCall(startParser, tokens)]
    /\ UNCHANGED <<ast, phase, simplified, compiled, infix, wrap, lexer>>

\* the invocation's running parse method takes a step
Step(c) ==
    /\ calls[c].status = "running"
    /\ calls[c].control # <<>>
    /\ calls' = [calls EXCEPT ![c] =
                    [step(@, compiled.compiledRules) EXCEPT
                        !.overlapped = @ \/ \E d \in Callers \ {c} :
                                                calls[d].status = "running"]]
    /\ UNCHANGED <<ast, phase, simplified, compiled, infix, wrap, lexer>>

\* parser.parse has returned: the invocation returns parseState.done()
Return(c) ==
    /\ calls[c].status = "running"
    /\ calls[c].control = <<>>
    /\ calls' = [calls EXCEPT ![c] = return(@)]
    /\ UNCHANGED <<ast, phase, simplified, compiled, infix, wrap, lexer>>

\* one caller, invoking the parser again and again
InitParse == Created(RunGrammars)

NextParse ==
    \/ \E tokens \in Inputs(ast, MaxDepth, MaxItems, MaxTokens, Values) : Invoke(1, tokens)
    \/ Step(1)
    \/ Return(1)

SpecParse == InitParse /\ [][NextParse]_vars

\* two callers of one compiled parser, their invocations interleaved
InitShared == Created(SharedGrammars)

NextShared ==
    \E c \in Callers :
        \/ \E tokens \in Inputs(ast, SharedDepth, SharedDepth, SharedDepth, {"1"}) :
              Invoke(c, tokens)
        \/ Step(c)
        \/ Return(c)

SpecShared == InitShared /\ [][NextShared]_vars

(***************************************************************************)
(* A grammar with every kind of surface expression, and its subject texts. *)
(***************************************************************************)
\* Root = "a"? Item+ ; Item = %value | ["(" (%identifier / ",") ")"]
TreeGrammar ==
    Ruleset(<<"Root", "Item">>,
            <<SeqN(<<Maybe(Lit("a")), Repeat1(Ident("Item"))>>, "list"),
              AltN(<<Term("value"),
                     Structure("(", SepBy0(Term("identifier"), Lit(",")), ")")>>)>>)

TreeTokens ==
    {LiteralToken("a"), LiteralToken("("), LiteralToken(")"), LiteralToken(","),
     Token("value", "1"), Token("identifier", "2")}

\* a ( 2 , 2 ) 1
TreeSentence ==
    <<LiteralToken("a"), LiteralToken("("), Token("identifier", "2"), LiteralToken(","),
      Token("identifier", "2"), LiteralToken(")"), Token("value", "1")>>

\* 1 ( 2 ) ( 1
TreeMistake ==
    <<Token("value", "1"), LiteralToken("("), Token("identifier", "2"), LiteralToken(")"),
      LiteralToken("("), Token("value", "1")>>

\* every short token sequence, and the two texts cut off anywhere
TreeInputs(len) ==
    SeqsOf(TreeTokens, len)
        \cup {SubSeq(TreeSentence, 1, n) : n \in 0..Len(TreeSentence)}
        \cup {SubSeq(TreeMistake, 1, n) : n \in 0..Len(TreeMistake)}

InitTree == Created({TreeGrammar})

NextTree ==
    \/ \E tokens \in TreeInputs(MaxTreeTokens) : Invoke(1, tokens)
    \/ Step(1)
    \/ Return(1)

SpecTree == InitTree /\ [][NextTree]_vars

(***************************************************************************)
(* Structures with and without a reducer.                                  *)
(***************************************************************************)
\* no reducer, (...xs) => xs, () => null, (_, x) => x
StructureReducers == {"", "list", "pushNull", "_2"}

\* Expr = ["(" Expr ")" fn] | %value
StructureGrammar(fn) ==
    Ruleset(<<"Expr">>,
            <<AltN(<<StructureFn("(", Ident("Expr"), ")", fn), Term("value")>>)>>)

StructureGrammars == {StructureGrammar(fn) : fn \in StructureReducers}

InitStructure == Created(StructureGrammars)

NextStructure ==
    \/ \E tokens \in ParenInputs(MaxDepth, Values) : Invoke(1, tokens)
    \/ Step(1)
    \/ Return(1)

SpecStructure == InitStructure /\ [][NextStructure]_vars

(***************************************************************************)
(* Grammars of two rules that refer to themselves and to one another.      *)
(***************************************************************************)
\* a rule's body: a reference, a number, or a structure around a reference
\* or a number
LoopBodies ==
    {Ident("A"), Ident("B"), Term("value"),
     AltN(<<Structure("(", Ident("A"), ")"), Term("value")>>),
     Structure("(", Repeat0(Ident("B")), ")")}

LoopGrammars == {Ruleset(<<"A", "B">>, <<a, b>>) : a \in LoopBodies, b \in LoopBodies}

LoopTokens == {LiteralToken("("), LiteralToken(")"), Token("value", "1")}

InitLoop == Created(LoopGrammars)

NextLoop ==
    \/ \E tokens \in SeqsOf(LoopTokens, MaxTokens) : Invoke(1, tokens)
    \/ Step(1)
    \/ Return(1)

SpecLoop == InitLoop /\ [][NextLoop]_vars

(***************************************************************************)
(* The compile pipeline of createParser.                                   *)
(***************************************************************************)
Init ==
    /\ ast \in Grammars
    /\ phase = "ast"
    /\ simplified = NoSimplified
    /\ compiled = NoCompiled
    /\ calls = [c \in Callers |-> IdleCall]
    /\ infix = NoInfix
    /\ wrap = NoWrap
    /\ lexer = NoLexer

\* ASTSimplifier.simplifyAll(ast)
SimplifyAll ==
    /\ phase = "ast"
    /\ simplified' = simplifyAll(ast)
    /\ phase' = IF simplified'.err = "" THEN "simplified" ELSE "failed"
    /\ UNCHANGED <<ast, compiled, calls, infix, wrap, lexer>>

\* ParserCompiler.compileRuleset(rules)
CompileRuleset ==
    /\ phase = "simplified"
    /\ compiled' = compileRuleset(simplified.rules, simplified.desc)
    /\ phase' = IF compiled'.err = "" THEN "compiled" ELSE "failed"
    /\ UNCHANGED <<ast, simplified, calls, infix, wrap, lexer>>

Next == SimplifyAll \/ CompileRuleset

Spec == Init /\ [][Next]_vars

(***************************************************************************)
(* The grammars of the simplifier's scopes: the rules A and B, whose       *)
(* bodies refer to rules by name (C is no rule of the outer ruleset), use  *)
(* the keyword and operator terminals, separated lists and inner rulesets, *)
(* which define C and may define A again; or a lone expression.            *)
(***************************************************************************)
ScopeLeaves ==
    {Ident(n) : n \in {"A", "B", "C"}}
        \cup {Lit("x"), Lit("+"), Term("keyword"), Term("operator")}

ScopeBodies ==
    ScopeLeaves
        \cup {SepBy0(l, Lit(",")) : l \in ScopeLeaves}
        \cup {SepBy1(l, Lit(",")) : l \in ScopeLeaves}
        \cup {SeqN(<<l1, l2>>, "") : l1 \in ScopeLeaves, l2 \in ScopeLeaves}
        \cup {Ruleset(<<"C">>, <<l>>) : l \in ScopeLeaves}
        \cup {Ruleset(<<"C", "A">>, <<l1, l2>>) : l1 \in ScopeLeaves, l2 \in ScopeLeaves}

ScopeGrammars ==
    ScopeLeaves \cup {Ruleset(<<"A", "B">>, <<a, b>>) : a \in ScopeBodies, b \in ScopeLeaves}

InitSimplify ==
    /\ ast \in ScopeGrammars
    /\ phase = "ast"
    /\ simplified = NoSimplified
    /\ compiled = NoCompiled
    /\ calls = [c \in Callers |-> IdleCall]
    /\ infix = NoInfix
    /\ wrap = NoWrap
    /\ lexer = NoLexer

SpecSimplify == InitSimplify /\ [][Next]_vars

(***************************************************************************)
(* An infix rule is compiled by altInfix, and the parser it returns parses *)
(* a subject text: the base operand and the operator applications, each    *)
(* matched by one of the rule's chains.                                    *)
(***************************************************************************)
InitInfix ==
    /\ infix \in {[NoInfix EXCEPT !.ts = ts, !.pc = "ast"] : ts \in InfixRules}
    /\ wrap = NoWrap
    /\ lexer = NoLexer
    /\ ast = ErrorNode("")
    /\ phase = "idle"
    /\ simplified = NoSimplified
    /\ compiled = NoCompiled
    /\ calls = [c \in Callers |-> IdleCall]

\* compiler.altInfix(ts, base, ctx)
AltInfix ==
    /\ infix.pc = "ast"
    /\ infix' = [infix EXCEPT !.parser = altInfix(infix.ts),
                              !.pc = IF altInfix(infix.ts).err = "" THEN "parsing"
                                     ELSE "threw"]
    /\ UNCHANGED <<ast, phase, simplified, compiled, calls, wrap, lexer>>

\* base matches the operand v: before the chains of a leftInfix rule, after
\* those of a rightInfix rule
MatchBase(v) ==
    /\ infix.pc = "parsing"
    /\ infix.init = NoValue
    /\ infix' = [infix EXCEPT !.init = v]
    /\ UNCHANGED <<ast, phase, simplified, compiled, calls, wrap, lexer>>

\* repeat(alt(...seqs), 0) matches once more: the j-th chain's seq matches,
\* with the operands xs
MatchChain(j, xs) ==
    /\ infix.pc = "parsing"
    /\ Len(infix.fns) < MaxChain
    /\ (infix.init # NoValue) = (infix.parser.hTag = "leftInfix")
    /\ infix' = [infix EXCEPT !.fns = Append(@, seqValue(infix.parser.seqs[j], xs)),
                              !.matched = Append(@, [chain |-> j, xs |-> xs])]
    /\ UNCHANGED <<ast, phase, simplified, compiled, calls, wrap, lexer>>

\* the repeat and the base have matched: the seq altInfix returned calls its fn
Fold ==
    /\ infix.pc = "parsing"
    /\ infix.init # NoValue
    /\ infix' = [infix EXCEPT !.result = infixValue(infix.parser.hTag, infix.fns, infix.init),
                              !.pc = "done"]
    /\ UNCHANGED <<ast, phase, simplified, compiled, calls, wrap, lexer>>

NextInfix ==
    \/ AltInfix
    \/ \E v \in BaseValues : MatchBase(v)
    \/ \E j \in DOMAIN infix.parser.seqs, xs \in Operands : MatchChain(j, xs)
    \/ Fold

SpecInfix == InitInfix /\ [][NextInfix]_vars

(***************************************************************************)
(* A grammar of rules is compiled by the program handler, and the parser   *)
(* it returns parses subject texts, calling the content functions of the   *)
(* wrapped parsers it runs.                                                *)
(***************************************************************************)
InitWrap ==
    /\ wrap \in {[NoWrap EXCEPT !.rules = rules, !.pc = "ast"] : rules \in JGrammars}
    /\ infix = NoInfix
    /\ lexer = NoLexer
    /\ ast = ErrorNode("")
    /\ phase = "idle"
    /\ simplified = NoSimplified
    /\ compiled = NoCompiled
    /\ calls = [c \in Callers |-> IdleCall]

\* lang`...`: the program handler runs on the grammar's rules
Program ==
    /\ wrap.pc = "ast"
    /\ wrap' = [wrap EXCEPT !.ctx = program(wrap.rules),
                            !.pc = IF program(wrap.rules).err = "" THEN "compiled"
                                   ELSE "threw"]
    /\ UNCHANGED <<ast, phase, simplified, compiled, calls, infix, lexer>>

\* a subject text is parsed, and a wrapped parser that runs calls its
\* content function
CallContent(i) ==
    /\ wrap.pc = "compiled"
    /\ wrap' = [wrap EXCEPT !.ctx = callContent(wrap.ctx, i),
                            !.pc = IF callContent(wrap.ctx, i).err = "" THEN "compiled"
                                   ELSE "parseThrew"]
    /\ UNCHANGED <<ast, phase, simplified, compiled, calls, infix, lexer>>

NextWrap == Program \/ \E i \in DOMAIN wrap.ctx.thunks : CallContent(i)

SpecWrap == InitWrap /\ [][NextWrap]_vars

(***************************************************************************)
(* tokenize, called on a text and run to its end.                          *)
(***************************************************************************)
\* the texts given to tokenize
LexChars == {"a", "_", "$", "1", " ", "/", "*", "\n", "\""}

Fragments ==
    {<<>>, <<"\"", "f", "o", "o">>, <<"b", "a", "r", "\"">>, <<"\"">>, <<"a">>,
     <<"/", "*">>, <<"'", "_">>}

InterpolatedValues == {JsString(<<"x">>), JsNumber(12), JsNull}

\* one fragment of up to chars characters, and slots interpolations between
\* fragments
LexInputs(chars, slots) ==
    {[strings |-> <<s>>, interps |-> <<>>] : s \in SeqsOf(LexChars, chars)}
        \cup UNION {
            {[strings |-> ss, interps |-> xs] :
                ss \in [1..(k + 1) -> Fragments], xs \in [1..k -> InterpolatedValues]}
            : k \in 1..slots}

InitLexer ==
    /\ ast = ErrorNode("")
    /\ phase = "idle"
    /\ simplified = NoSimplified
    /\ compiled = NoCompiled
    /\ calls = [c \in Callers |-> IdleCall]
    /\ infix = NoInfix
    /\ wrap = NoWrap
    /\ \E input \in LexInputs(MaxChars, MaxSlots) :
          lexer = tokenize(input.strings, input.interps)

\* while ((ch = lexerState.nextChar())) { switch (ch) ...
MainChar ==
    /\ lexer.at = "main"
    /\ hasStrings(lexer.ls)
    /\ nextChar(lexer.ls) # ""
    /\ lexer' = mainChar(lexer)
    /\ UNCHANGED <<ast, phase, simplified, compiled, calls, infix, wrap>>

\* the inner loop of mainState is over and a fragment is left
MainInterpolation ==
    /\ lexer.at = "main"
    /\ hasStrings(lexer.ls)
    /\ nextChar(lexer.ls) = ""
    /\ lexer' = mainInterpolation(lexer)
    /\ UNCHANGED <<ast, phase, simplified, compiled, calls, infix, wrap>>

\* while (lexerState.hasStrings()) is over in mainState
MainReturn ==
    /\ lexer.at = "main"
    /\ ~hasStrings(lexer.ls)
    /\ lexer' = mainReturn(lexer)
    /\ UNCHANGED <<ast, phase, simplified, compiled, calls, infix, wrap>>

\* while (lexerState.nextChar()) in quote
QuoteChar ==
    /\ lexer.at = "quote"
    /\ hasStrings(lexer.ls)
    /\ nextChar(lexer.ls) # ""
    /\ lexer' = quoteChar(lexer)
    /\ UNCHANGED <<ast, phase, simplified, compiled, calls, infix, wrap>>

\* the inner loop of quote is over and a fragment is left
QuoteInterpolation ==
    /\ lexer.at = "quote"
    /\ hasStrings(lexer.ls)
    /\ nextChar(lexer.ls) = ""
    /\ lexer' = quoteInterpolation(lexer)
    /\ UNCHANGED <<ast, phase, simplified, compiled, calls, infix, wrap>>

\* while (lexerState.hasStrings()) is over in quote
QuoteLeftOpen ==
    /\ lexer.at = "quote"
    /\ ~hasStrings(lexer.ls)
    /\ lexer' = quoteLeftOpen(lexer)
    /\ UNCHANGED <<ast, phase, simplified, compiled, calls, infix, wrap>>

\* while (lexerState.nextChar()) in comment
CommentChar ==
    /\ lexer.at = "comment"
    /\ hasStrings(lexer.ls)
    /\ nextChar(lexer.ls) # ""
    /\ lexer' = commentChar(lexer)
    /\ UNCHANGED <<ast, phase, simplified, compiled, calls, infix, wrap>>

\* the inner loop of comment is over and a fragment is left
CommentInterpolation ==
    /\ lexer.at = "comment"
    /\ hasStrings(lexer.ls)
    /\ nextChar(lexer.ls) = ""
    /\ lexer' = commentInterpolation(lexer)
    /\ UNCHANGED <<ast, phase, simplified, compiled, calls, infix, wrap>>

\* while (lexerState.hasStrings()) is over in comment
CommentReturn ==
    /\ lexer.at = "comment"
    /\ ~hasStrings(lexer.ls)
    /\ lexer' = commentReturn(lexer)
    /\ UNCHANGED <<ast, phase, simplified, compiled, calls, infix, wrap>>

NextLexer ==
    \/ MainChar
    \/ MainInterpolation
    \/ MainReturn
    \/ QuoteChar
    \/ QuoteInterpolation
    \/ QuoteLeftOpen
    \/ CommentChar
    \/ CommentInterpolation
    \/ CommentReturn

SpecLexer == InitLexer /\ [][NextLexer]_vars

(***************************************************************************)
(* What the claims speak of, defined on the grammar alone (not by the      *)
(* analysis under test): the nodes of a rule table, which expressions can  *)
(* match the empty token sequence, which terminals can begin an            *)
(* expression, and which rules an expression can enter before a token is   *)
(* consumed.  First sets are the least fixpoint over the rules; the        *)
(* end-of-input marker stands for the empty match.                         *)
(***************************************************************************)
RECURSIVE SubNodes(_)
SubNodes(node) == {node} \cup UNION {SubNodes(node.exprs[i]) : i \in DOMAIN node.exprs}

NodesOf(rules) == UNION {SubNodes(rules[i].val) : i \in DOMAIN rules}

RuleIds(rules) == {rules[i].key : i \in DOMAIN rules}

RECURSIVE FirstIn(_, _), FirstSeqIn(_, _, _)
FirstIn(node, F) ==
    CASE node.type = "reduce" -> {brandEof}
      [] node.type = "literal" -> {brandLiteral(node.value)}
      [] node.type \in {"identifier", "value"} -> {brandType(node.type)}
      [] node.type = "nonterminal" -> IF node.rule \in DOMAIN F THEN F[node.rule] ELSE {}
      [] node.type = "repeat0" -> FirstIn(node.exprs[1], F) \cup {brandEof}
      [] node.type = "seq" -> FirstSeqIn(node.exprs, 1, F)
      [] node.type = "alt" -> UNION {FirstIn(node.exprs[i], F) : i \in DOMAIN node.exprs}

FirstSeqIn(exprs, i, F) ==
    IF i > Len(exprs) THEN {brandEof}
    ELSE LET f == FirstIn(exprs[i], F)
         IN IF brandEof \in f THEN (f \ {brandEof}) \cup FirstSeqIn(exprs, i + 1, F) ELSE f

RECURSIVE FirstFix(_, _)
FirstFix(rules, F) ==
    LET G == [r \in RuleIds(rules) |-> FirstIn(MapGet(rules, r), F)]
    IN IF G = F THEN F ELSE FirstFix(rules, G)

FirstEnv(rules) == FirstFix(rules, [r \in RuleIds(rules) |-> {}])

First(node, rules) == FirstIn(node, FirstEnv(rules))

FirstSeq(exprs, i, rules) == FirstSeqIn(exprs, i, FirstEnv(rules))

Nullable(node, rules) == brandEof \in First(node, rules)

\* the rules an expression can enter before it has consumed a token
RECURSIVE LeftCalls(_, _), LeftCallsSeq(_, _, _)
LeftCalls(node, rules) ==
    CASE node.type = "nonterminal" -> {node.rule}
      [] node.type = "repeat0" -> LeftCalls(node.exprs[1], rules)
      [] node.type = "seq" -> LeftCallsSeq(node.exprs, 1, rules)
      [] node.type = "alt" -> UNION {LeftCalls(node.exprs[i], rules) : i \in DOMAIN node.exprs}
      [] OTHER -> {}

LeftCallsSeq(exprs, i, rules) ==
    IF i > Len(exprs) THEN {}
    ELSE LeftCalls(exprs[i], rules)
         \cup IF Nullable(exprs[i], rules) THEN LeftCallsSeq(exprs, i + 1, rules) ELSE {}

RECURSIVE LeftReach(_, _, _)
LeftReach(rules, reached, frontier) ==
    IF frontier = {} THEN reached
    ELSE LET called == UNION {LeftCalls(MapGet(rules, r), rules) :
                              r \in frontier \cap RuleIds(rules)}
         IN LeftReach(rules, reached \cup called, called \ reached)

\* some rule can reach itself without a token being consumed first
LeftRecursive(rules) ==
    \E r \in RuleIds(rules) :
        r \in LeftReach(rules, {}, {r})

\* some alt has two branches that can begin with the same terminal
SharedTerminals(node, rules) ==
    {t \in First(node, rules) :
        \E i, j \in DOMAIN node.exprs :
            i < j /\ t \in First(node.exprs[i], rules) /\ t \in First(node.exprs[j], rules)}

AltNodes(rules) == {n \in NodesOf(rules) : n.type = "alt"}

AltsDisjoint(rules) == \A n \in AltNodes(rules) : SharedTerminals(n, rules) = {}

\* some repeat0 has an inner expression that can match the empty sequence
EpsilonRepeat(rules) ==
    \E n \in NodesOf(rules) : n.type = "repeat0" /\ Nullable(n.exprs[1], rules)

\* the conflict the seq case looks for: an element that can begin with a
\* terminal of an element before it, every element before it being nullable
SeqPrefixConflict(rules) ==
    \E n \in NodesOf(rules) :
        /\ n.type = "seq"
        /\ \E i, j \in DOMAIN n.exprs :
              /\ i < j
              /\ \A k \in 1..(j - 1) : Nullable(n.exprs[k], rules)
              /\ (First(n.exprs[i], rules) \cap First(n.exprs[j], rules)) \ {brandEof} # {}

\* every nullable element that is not the last begins apart from what follows it
SeqFirstFollowFree(rules) ==
    \A n \in NodesOf(rules) :
        n.type = "seq" =>
            \A i \in 1..(Len(n.exprs) - 1) :
                Nullable(n.exprs[i], rules) =>
                    (First(n.exprs[i], rules) \cap FirstSeq(n.exprs, i + 1, rules))
                        \ {brandEof} = {}

RECURSIVE SubMatchers(_)
SubMatchers(m) ==
    {m} \cup UNION {SubMatchers(m.parsers[i]) : i \in DOMAIN m.parsers}
        \cup UNION {SubMatchers(m.parserMap[i].val) : i \in DOMAIN m.parserMap}

MatchersOf(compiledRules) ==
    UNION {SubMatchers(compiledRules[i].val) : i \in DOMAIN compiledRules}

\* compileRuleset has run, and returned or thrown
CompileDone == phase = "compiled" \/ (phase = "failed" /\ simplified.err = "")

FirstFirstErrors(rules) ==
    {"first/first conflict on " \o t : t \in UNION {SharedTerminals(n, rules) : n \in AltNodes(rules)}}

\* the builder as compileRuleset left it
FinalBuilder ==
    [rules |-> simplified.rules, desc |-> simplified.desc,
     cache |-> compiled.cache, err |-> ""]

(***************************************************************************)
(* C1.  A grammar in which some rule can reach itself without a token      *)
(* being consumed first never compiles to a parser: compileRuleset throws. *)
(* (The claim in its weakest reading: any compile error satisfies it.)     *)
(***************************************************************************)
C1_LeftRecursionNeverCompiles ==
    phase = "compiled" => ~LeftRecursive(simplified.rules)

AltTableSelectsBranch(n) ==
    LET m == compile(n, FinalBuilder).parser
    IN /\ m \in MatchersOf(compiled.compiledRules)
       /\ Range(MapKeys(m.parserMap)) = First(n, simplified.rules)
       /\ \A i \in DOMAIN n.exprs :
            \A t \in First(n.exprs[i], simplified.rules) :
                MapGet(m.parserMap, t) = compile(n.exprs[i], FinalBuilder).parser

C3_NoFirstFollowConflictCompiles ==
    phase = "compiled" => SeqFirstFollowFree(simplified.rules)

Finished(c) == calls[c].status \in {"returned", "threw"}

Returned(c, v) == calls[c].status = "returned" /\ calls[c].value = v

\* C5: for Expr = "(" Expr ")" | %number, parsing n opening parentheses, a
\* number v and m closing parentheses returns v when n = m and raises a
\* parse error when n # m
C5_BalancedOrError ==
    ast = ParenGrammar =>
        \A c \in Callers, n \in 0..MaxDepth, m \in 0..MaxDepth, v \in Values :
            Finished(c) /\ calls[c].state.tokens = ParenInput(n, v, m)
                => IF n = m THEN Returned(c, Str(v)) ELSE calls[c].status = "threw"

\* the values of the first, third, fifth ... token
OddValues(tokens) == [i \in 1..((Len(tokens) + 1) \div 2) |-> tokens[2 * i - 1].value]

\* C6: for a separated list item / separator and k >= 1, parsing k items
\* with one separator between consecutive items returns the list of the k
\* item values in input order, without the separators, and so does the same
\* input followed by one trailing separator
C6_SeparatedList ==
    ast \in ListGrammars =>
        \A c \in Callers, t \in BOOLEAN :
            /\ Finished(c)
            /\ Len(calls[c].state.tokens) >= 1
            /\ calls[c].state.tokens = ListInput(ast, OddValues(calls[c].state.tokens), t)
            => Returned(c, Arr([i \in DOMAIN OddValues(calls[c].state.tokens) |->
                                  Str(OddValues(calls[c].state.tokens)[i])]))

\* three items and a trailing separator have been parsed
C6_Witness ==
    /\ ast \in ListGrammars
    /\ Finished(1)
    /\ calls[1].state.tokens = ListInput(ast, <<"1", "2", "1">>, TRUE)
    /\ Returned(1, Arr(<<Str("1"), Str("2"), Str("1")>>))

\* C9: an invocation never modifies the compiled rule table, and under any
\* interleaving of the steps of two callers' invocations, first or repeated,
\* each invocation ends as it does when it runs alone
C9_EndsAsAlone ==
    \A c \in Callers : Finished(c) => Outcome(calls[c]) = runAlone(calls[c].state.tokens)

C9_InvocationsIndependent ==
    /\ []C9_EndsAsAlone
    /\ [][compiled' = compiled /\ simplified' = simplified]_vars

\* both callers' invocations have ended, one with an error and one with a
\* value, each having taken steps while the other was running
C9_Witness ==
    /\ calls[1].status = "threw" /\ calls[1].overlapped
    /\ calls[2].status = "returned" /\ calls[2].overlapped
    /\ Len(calls[2].state.tokens) > 1

(***************************************************************************)
(* Claims about the lang compiler.                                         *)
(***************************************************************************)
\* fn_k(...fn_2(fn_1(base, xs_1), xs_2)..., xs_k) for the first k applications
RECURSIVE LeftNested(_, _, _, _)
LeftNested(ts, matched, k, base) ==
    IF k = 0 THEN base
    ELSE Applied(ts[matched[k].chain].fn,
                 <<LeftNested(ts, matched, k - 1, base)>> \o matched[k].xs)

\* fn_i(xs_i, fn_i+1(xs_i+1, ... fn_k(xs_k, base))) for the applications from i
RECURSIVE RightNested(_, _, _, _)
RightNested(ts, matched, i, base) ==
    IF i > Len(matched) THEN base
    ELSE Applied(ts[matched[i].chain].fn,
                 matched[i].xs \o <<RightNested(ts, matched, i + 1, base)>>)

\* C7: a chain of k >= 1 operator applications of an altInfix rule is folded
\* in the declared direction, left-nested for leftInfix and right-nested for
\* rightInfix, each fn being the reducer of the chain that matched
C7_FoldedInDeclaredDirection ==
    infix.pc = "done" /\ Len(infix.matched) >= 1 =>
        infix.result =
            IF infix.ts[1].tag = "leftInfix"
            THEN LeftNested(infix.ts, infix.matched, Len(infix.matched), infix.init)
            ELSE RightNested(infix.ts, infix.matched, 1, infix.init)

\* a rightInfix rule of two chains has folded three applications, of both
\* chains
C7_Witness ==
    /\ infix.pc = "done"
    /\ infix.ts[1].tag = "rightInfix"
    /\ Len(infix.matched) = 3
    /\ infix.matched[1].chain # infix.matched[2].chain

\* the roles a literal is used in, anywhere in an expression
RECURSIVE RolesIn(_, _)
RolesIn(node, role) ==
    CASE node.type = "literal" -> {<<node.value, role>>}
      [] node.type = "identifier" -> {}
      [] node.type = "seq" ->
            UNION {RolesIn(node.exprs[i], "contentToken") : i \in DOMAIN node.exprs}
      [] node.type = "wrapped" ->
            RolesIn(node.exprs[1], "startToken")
                \cup RolesIn(node.exprs[2], "contentToken")
                \cup RolesIn(node.exprs[3], "endToken")

RoleConflict(rules) ==
    \E i \in DOMAIN rules, j \in DOMAIN rules :
        \E r \in RolesIn(rules[i].expr, "contentToken"),
           s \in RolesIn(rules[j].expr, "contentToken") : r[1] = s[1] /\ r[2] # s[2]

\* C8: a grammar that uses one literal in two wrap roles, anywhere, fails to
\* compile: the error is thrown at compile time and no parser is returned
C8_RoleConflictIsCompileError ==
    wrap.pc # "ast" /\ wrap.pc # "idle" /\ RoleConflict(wrap.rules) => wrap.pc = "threw"

(***************************************************************************)
(* Claims about the simplifier's rule table.                               *)
(***************************************************************************)
\* the names an expression refers to that no enclosing ruleset defines
RECURSIVE UnboundIn(_, _)
UnboundIn(node, names) ==
    CASE node.type = "identifier" -> IF node.value \in names THEN {} ELSE {node.value}
      [] node.type = "ruleset" ->
            UNION {UnboundIn(node.exprs[i], names \cup Range(node.names)) :
                   i \in DOMAIN node.exprs}
      [] OTHER -> UNION {UnboundIn(node.exprs[i], names) : i \in DOMAIN node.exprs}

Entries(rules, ruleId) == {i \in DOMAIN rules : rules[i].key = ruleId}

\* every nonterminal of a rule body, and the start rule, has exactly one entry
AllResolve(s) ==
    /\ Cardinality(Entries(s.rules, s.startRule)) = 1
    /\ \A n \in NodesOf(s.rules) :
          n.type = "nonterminal" => Cardinality(Entries(s.rules, n.rule)) = 1

\* C10: simplifyAll throws 'unknown identifier' for a name no enclosing
\* scope defines, and otherwise returns a rule table in which every
\* nonterminal of a rule body (the start rule's, the sepBy rules', the
\* keyword and operator rules included) has exactly one entry; references
\* to rules defined later in the ruleset, or to each other, resolve
C10_EveryNonterminalResolves ==
    phase # "ast" /\ phase # "idle" =>
        IF UnboundIn(ast, {}) = {}
        THEN simplified.err = "" /\ AllResolve(simplified)
        ELSE \E n \in UnboundIn(ast, {}) : simplified.err = "unknown identifier " \o n

\* a table was returned for a grammar whose first rule is a separated list
\* of the rule defined after it, with the keyword terminal in use
C10_Witness ==
    /\ phase = "simplified"
    /\ ast.type = "ruleset"
    /\ ast.exprs[1] = SepBy1(Ident("B"), Lit(","))
    /\ ast.exprs[2] = Term("keyword")
    /\ AllResolve(simplified)

(***************************************************************************)
(* Claims about the value stack.                                           *)
(***************************************************************************)
\* the invocation with nothing but its innermost parse method running
Alone(c) == [c EXCEPT !.control = <<Top(c)>>]

\* the lowest the value stack gets while the invocation runs on: a Reduce
\* takes it down by its arity before it pushes
RECURSIVE LowWater(_, _, _)
LowWater(c, compiledRules, low) ==
    IF c.status # "running" \/ c.control = <<>> THEN low
    ELSE LowWater(step(c, compiledRules), compiledRules,
                  IF Top(c).parser.class = "Reduce"
                      /\ Len(c.state.results) - Top(c).parser.arity < low
                  THEN Len(c.state.results) - Top(c).parser.arity
                  ELSE low)

\* the matcher just entered, if it succeeds, leaves one value on top of the
\* stack as it is now, and never takes the stack below what it is now
PushesOne(c) ==
    With(finish(Alone(c), compiled.compiledRules), LAMBDA f :
        f.status = "returned" =>
            /\ f.value # Undefined
            /\ f.state.results = c.state.results
            /\ LowWater(Alone(c), compiled.compiledRules, Len(c.state.results))
                   = Len(c.state.results))

\* C11: every successful run of the matcher of a simplified surface
\* expression leaves the value stack exactly one element taller than when it
\* started, no Reduce pops a value pushed before its enclosing sequence
\* began, and when the root matcher succeeds the stack holds exactly one
\* value, which is the value the parser returns
C11_MatchersPushOne ==
    \A c \in Callers :
        /\ (/\ calls[c].status = "running"
            /\ calls[c].control # <<>>
            /\ Top(calls[c]).pc = 0
            /\ Top(calls[c]).parser.class # "Reduce") => PushesOne(calls[c])
        /\ (calls[c].status = "running" /\ calls[c].control = <<>>) =>
              /\ Len(calls[c].state.results) = 1
              /\ return(calls[c]).value = calls[c].state.results[1]
        /\ calls[c].status = "returned" => calls[c].state.results = <<>>

\* in a sentence with a structure in it, a repeat is entered with two values
\* under it on the stack and goes on to succeed with an item
C11_Witness ==
    /\ calls[1].status = "running" /\ calls[1].control # <<>>
    /\ Top(calls[1]).pc = 0 /\ Top(calls[1]).parser.class = "Repeat"
    /\ Len(calls[1].state.results) = 2
    /\ finish(Alone(calls[1]), compiled.compiledRules).status = "returned"
    /\ Len(finish(Alone(calls[1]), compiled.compiledRules).value.items) = 1
    /\ calls[1].state.tokens = TreeSentence

(***************************************************************************)
(* Claims about structures.                                                *)
(***************************************************************************)
\* the value of the number v in n pairs of parentheses when each structure's
\* value is its reducer's result on the opening token, the content and the
\* closing token, and the content's value when it has no reducer
RECURSIVE Reduced(_, _, _)
Reduced(fn, n, v) ==
    IF n = 0 THEN Str(v)
    ELSE IF fn = "" THEN Reduced(fn, n - 1, v)
    ELSE call(fn, <<Str("("), Reduced(fn, n - 1, v), Str(")")>>)

\* C12: a successful match of a structure with a reducer applies the reducer
\* to the structure's child results and the structure's value is the
\* reducer's result; with no reducer the structure's value is the content's
\* value
C12_StructureReducerApplied ==
    \A fn \in StructureReducers, n \in 1..MaxDepth, v \in Values :
        /\ ast = StructureGrammar(fn)
        /\ calls[1].status = "returned"
        /\ calls[1].state.tokens = ParenInput(n, v, n)
        => calls[1].value = Reduced(fn, n, v)

(***************************************************************************)
(* Claims about parse errors.                                              *)
(***************************************************************************)
\* a frame for each rule whose matcher is running, the innermost first
ActiveRules(control) ==
    LET rules == SelectSeq(control, LAMBDA f : f.parser.class = "MatchRule")
    IN  [k \in 1..Len(rules) |-> RuleFrame(rules[Len(rules) + 1 - k].parser.rule)]

\* the terminals a matcher that can raise a mismatch names
ExpectedBy(p) ==
    CASE p.class = "MatchLiteral" -> "\"" \o p.value \o "\""
      [] p.class = "MatchType" -> "<" \o p.value \o ">"
      [] OTHER -> Join(MapKeys(p.parserMap), 1)

\* the token at the cursor, as a message names it
ReceivedAt(state) ==
    IF state.index >= Len(state.tokens) THEN "(end of input)"
    ELSE IF state.tokens[state.index + 1].type \in {"identifier", "value"}
    THEN "<" \o state.tokens[state.index + 1].type \o ">"
    ELSE "\"" \o state.tokens[state.index + 1].value \o "\""

\* the invocation c fails in this step as the claim says
FailsWithTrace(c) ==
    /\ calls'[c].message =
          "Expected " \o ExpectedBy(Top(calls[c]).parser) \o ", received "
              \o ReceivedAt(calls[c].state)
    /\ calls'[c].trace =
          (IF calls[c].state.index >= Len(calls[c].state.tokens) THEN <<>>
           ELSE <<TokenFrame(calls[c].state.tokens[calls[c].state.index + 1])>>)
          \o ActiveRules(calls[c].control)

\* C13: when a parse fails, the error's trace is the token at which the
\* mismatch occurred (no token frame at end of input), then one rule frame
\* for each nonterminal matcher active at the failure, from the innermost
\* to the outermost, none for a rule that had completed, and the message is
\* 'Expected <terminal(s)>, received <actual token or (end of input)>'
C13_TraceUnwinds ==
    [][\A c \in Callers :
          calls[c].status = "running" /\ calls'[c].status = "threw"
              => FailsWithTrace(c)]_vars

\* after two items, the second a rule that matched a structure, a third
\* item fails at a token inside its structure: the trace is the token, the
\* item's rule and the root rule
C13_Witness ==
    /\ calls[1].status = "threw"
    /\ calls[1].state.tokens = TreeMistake
    /\ Len(calls[1].trace) = 3
    /\ calls[1].trace[1] = TokenFrame(Token("value", "1"))
    /\ calls[1].trace[2].type = "rule" /\ calls[1].trace[3].type = "rule"
    /\ calls[1].trace[2] # calls[1].trace[3]
    /\ calls[1].message = "Expected \")\", received <value>"

(***************************************************************************)
(* Claims about the tokenizer.                                             *)
(***************************************************************************)
\* how many characters of the fragments lie between index i of fragment o
\* (counted from 0) and index j of fragment p
RECURSIVE SpanLength(_, _, _, _, _)
SpanLength(strings, o, i, p, j) ==
    IF o = p THEN j - i
    ELSE (Len(strings[o + 1]) - i) + SpanLength(strings, o + 1, 0, p, j)

\* a fragment ends inside the open string and another follows: the value
\* between them goes into the string's value, as text, and nothing else
\* changes
ValueJoinsString ==
    /\ lexer.at = "quote"
    /\ nextChar(lexer.ls) = ""
    /\ lexer.ls.outerIndex + 1 < Len(lexer.ls.strings)
    => /\ lexer'.at = "quote"
       /\ lexer'.token.value =
            JsString(lexer.token.value.chars
                        \o String(lexer.ls.interps[lexer.ls.outerIndex + 1]))
       /\ lexer'.token.length = lexer.token.length
       /\ lexer'.ls.tokens = lexer.ls.tokens

\* the string is closed: its token's length is the number of characters of
\* the fragments from its opening quote to its closing quote
StringLengthIsLiteral ==
    lexer.at = "quote" /\ lexer'.at = "main" =>
        /\ lexer'.ls.tokens = Append(lexer.ls.tokens, lexer'.ls.tokens[Len(lexer'.ls.tokens)])
        /\ lexer'.ls.tokens[Len(lexer'.ls.tokens)].length =
              SpanLength(lexer.ls.strings,
                         lexer'.ls.tokens[Len(lexer'.ls.tokens)].outerIndex,
                         lexer'.ls.tokens[Len(lexer'.ls.tokens)].index,
                         lexer'.ls.outerIndex, lexer'.ls.index)

\* C14: when a fragment ends inside an open quoted string and another
\* fragment follows, the interpolated value between them is stringified and
\* appended to the string token's value, no separate value token is emitted,
\* and it adds 0 to the token's length: the finished token's length is the
\* sum of the lengths of its literal sub-parts, both quotes included
C14_InterpolationInString == [][ValueJoinsString /\ StringLengthIsLiteral]_vars

\* "foo${12}bar" has been tokenized: one token, "foo12bar", of length 8
C14_Witness ==
    /\ lexer.at = "returned"
    /\ lexer.ls.strings = <<<<"\"", "f", "o", "o">>, <<"b", "a", "r", "\"">>>>
    /\ lexer.ls.interps = <<JsNumber(12)>>
    /\ lexer.ls.tokens =
          <<LexerToken("value", JsString(<<"f", "o", "o", "1", "2", "b", "a", "r">>),
                       0, 0, 8)>>

\* the identifier characters, and those an identifier may begin with
IdentifierChars == IdContinue \cup {"$"}
IdentifierStarts == IdStart \cup {"$", "_"}

\* a maximal run of identifier characters begins at index i of the text
\* (counted from 0) with a character an identifier may begin with
RunBeginsAt(text, i) ==
    /\ text[i + 1] \in IdentifierStarts
    /\ i > 0 => text[i] \notin IdentifierChars

\* the run that begins at index i, to its end
RunFrom(text, i) ==
    SubSeq(text, i + 1,
           CHOOSE j \in (i + 1)..Len(text) :
              /\ \A k \in (i + 1)..j : text[k] \in IdentifierChars
              /\ j < Len(text) => text[j + 1] \notin IdentifierChars)

\* C15: outside strings and comments, every maximal run of identifier
\* characters that begins with an identifier-start character, $ or _ is
\* emitted as exactly one identifier token whose value is the whole run
C15_IdentifierRunIsOneToken ==
    /\ lexer.at = "returned"
    /\ Len(lexer.ls.strings) = 1
    /\ Range(lexer.ls.strings[1]) \subseteq IdentifierChars \cup {" "}
    => \A i \in 0..(Len(lexer.ls.strings[1]) - 1) :
          RunBeginsAt(lexer.ls.strings[1], i) =>
              Cardinality({k \in DOMAIN lexer.ls.tokens :
                  lexer.ls.tokens[k] =
                      LexerToken("identifier", JsString(RunFrom(lexer.ls.strings[1], i)),
                                 i, 0, Len(RunFrom(lexer.ls.strings[1], i)))}) = 1

(***************************************************************************)
(* Claims about termination.                                               *)
(***************************************************************************)
\* running on from the entry of the rule's matcher, the rule is not entered
\* again, while that entry is active, with the cursor where it was
RECURSIVE ReentersAfterProgress(_, _, _, _)
ReentersAfterProgress(c, compiledRules, rule, index) ==
    IF c.status # "running" \/ c.control = <<>> THEN TRUE
    ELSE IF /\ Len(c.control) > 1
            /\ Top(c).parser.class = "MatchRule" /\ Top(c).parser.rule = rule
            /\ Top(c).pc = 0
            /\ c.state.index = index
    THEN FALSE
    ELSE ReentersAfterProgress(step(c, compiledRules), compiledRules, rule, index)

\* the matcher just entered is the body of a Repeat's loop
InRepeatLoop(c) ==
    /\ c.status = "running"
    /\ Len(c.control) > 1
    /\ Top(c).pc = 0
    /\ c.control[Len(c.control) - 1].parser.class = "Repeat"

\* an invocation ends with a value or a parse error, an iteration of a
\* Repeat's loop that succeeds consumes a token, and a rule is entered
\* again while it is active only with the cursor further on
TerminatesByProgress ==
    \A c \in Callers :
        /\ calls[c].status = "threw" => calls[c].message \notin {"RangeError", "TypeError"}
        /\ InRepeatLoop(calls[c]) =>
              With(finish(Alone(calls[c]), compiled.compiledRules), LAMBDA f :
                  f.status = "returned" => f.state.index > calls[c].state.index)
        /\ (/\ calls[c].status = "running" /\ calls[c].control # <<>>
            /\ Top(calls[c]).parser.class = "MatchRule" /\ Top(calls[c]).pc = 0)
           => ReentersAfterProgress(step(Alone(calls[c]), compiled.compiledRules),
                                    compiled.compiledRules, Top(calls[c]).parser.rule,
                                    calls[c].state.index)

\* C16: for every grammar that compiles and every token list the parser
\* terminates, returning a value or raising a parse error: the cursor never
\* moves backwards, every iteration of a Repeat loop consumes at least one
\* token, and a rule that is already active is entered again only after at
\* least one token was consumed since its previous entry
C16_ParserTerminates ==
    /\ []TerminatesByProgress
    /\ [][\A c \in Callers :
            calls[c].status = "running" =>
                calls'[c].state.index >= calls[c].state.index]_vars

====
